---- MODULE Spec2Model ----
(***************************************************************************)
(* The reconcile core of the VolumeReplicationGroup (VRG) controller,      *)
(* controllers/volumereplicationgroup_controller.go.                       *)
(*                                                                         *)
(* One VRG object lives in the authoritative store (vrg).  Reconcile      *)
(* invocations of that VRG are serialized by the work queue, so there is   *)
(* one invocation in flight at most; pc is its position and v is its       *)
(* VRGInstance.  The store is touched at three places only: the Get at the *)
(* start, the Update that adds or removes the finalizer, and the status    *)
(* Update.  Users edit or delete the VRG between those places.  The backend *)
(* drivers, the object store and the API server's failures are inputs the  *)
(* actions draw from small sets.  Every call that fails is logged in calls *)
(* with its outcome.  The watch on volume claims (pvcPredicateFunc and the *)
(* map function filterPVC) is a machine of its own, SpecWatch.  The        *)
(* deletion of a VRG that other finalizers may hold is run on its own in   *)
(* SpecDelete, and with a fair scheduler in SpecDeleteFair.                *)
(***************************************************************************)
EXTENDS Integers, Sequences, FiniteSets, TLC

VARIABLES
    vrg,     \* the VRG object in the authoritative store
    pc,      \* position of the invocation in flight: idle, loaded, the branch chosen, done
    v,       \* the VRGInstance of the invocation in flight
    stale,   \* the stored object was written by somebody else since this invocation's Get
    sync,    \* what updateVRGStatus did in this invocation
    result,  \* the ctrl.Result (and error) the invocation returns
    calls,   \* the collaborator and store calls of this invocation, in order
    env,     \* the collaborators' answers, where a specification holds them fixed
    quiet,   \* an invocation has completed since the last external change (and how)
    event,   \* the volume-claim event the watch is handling
    vrgs,    \* the VRG objects the map function's List call sees in the store
    requests \* the reconcile requests the watch has enqueued for the event

watch == <<event, vrgs, requests>>

vars == <<vrg, pc, v, stale, sync, result, calls, env, quiet, event, vrgs, requests>>

(***************************************************************************)
(* Bounds of the model.                                                    *)
(***************************************************************************)
MaxGen == 2      \* generations a VRG goes through (MaxGen - 1 spec edits)
MaxTime == 2     \* status writes that stamp a new lastUpdateTime
NumPVCs == 2     \* volume claims in the namespace
MaxVRCs == 2     \* replication classes a list call returns

(***************************************************************************)
(* Names of the program.                                                   *)
(***************************************************************************)
vrgFinalizerName == "volumereplicationgroups.ramendr.openshift.io/vrg-protection"

Primary == "primary"
Secondary == "secondary"
InvalidState == "bogus"
ReplicationStates == {Primary, Secondary, InvalidState}

PrimaryState == "Primary"
SecondaryState == "Secondary"
UnknownState == "Unknown"
NoState == ""

ModeEnabled == "Enabled"
ModeDisabled == "Disabled"

VRGConditionTypeDataReady == "DataReady"
VRGConditionTypeDataProtected == "DataProtected"
VRGConditionTypeClusterDataReady == "ClusterDataReady"
VRGConditionTypeClusterDataProtected == "ClusterDataProtected"
SummaryTypes == {VRGConditionTypeDataReady, VRGConditionTypeDataProtected,
                 VRGConditionTypeClusterDataProtected}

ConditionTrue == "True"
ConditionFalse == "False"
ConditionUnknown == "Unknown"

VRGConditionReasonInitializing == "Initializing"
VRGConditionReasonReady == "Ready"
VRGConditionReasonProgressing == "Progressing"
VRGConditionReasonClusterDataRestored == "Restored"
VRGConditionReasonError == "Error"

(***************************************************************************)
(* The external entities: claims are named 1..NumPVCs (the API lists them  *)
(* by name), a claim's storage class resolves to a provisioner or not at   *)
(* all, a replication class is its provisioner.                            *)
(***************************************************************************)
PVCNames == 1..NumPVCs
Provisioners == {"csi-a", "csi-b"}
Unresolved == "unresolved"
StorageClassAnswers == [PVCNames -> Provisioners \cup {Unresolved}]

RECURSIVE SetToSeq(_)
SetToSeq(S) ==
    IF S = {} THEN <<>>
    ELSE LET m == CHOOSE x \in S : \A y \in S : x <= y
         IN <<m>> \o SetToSeq(S \ {m})

PVCLists == {SetToSeq(S) : S \in SUBSET PVCNames}
ReplClassLists == UNION {[1..n -> Provisioners] : n \in 0..MaxVRCs}
Range(s) == {s[i] : i \in 1..Len(s)}

\* What the store answers to the calls of a classification: the claim list,
\* the replication class list and the storage class of every listed claim
\* (the storage class of a claim that is not listed is never asked for).
ClassifyInput(listFails, pvcList, vrcFails, vrcs, sc) ==
    [listFails |-> listFails, pvcList |-> pvcList, vrcFails |-> vrcFails,
     vrcs |-> vrcs, sc |-> sc]

ClassifyInputs ==
    {ClassifyInput(TRUE, <<>>, FALSE, <<>>, [n \in PVCNames |-> Unresolved]),
     ClassifyInput(FALSE, <<>>, TRUE, <<>>, [n \in PVCNames |-> Unresolved])}
    \cup UNION {{ClassifyInput(FALSE, p, FALSE, c, s) :
                   c \in ReplClassLists,
                   s \in {f \in StorageClassAnswers :
                            \A n \in PVCNames : n \notin Range(p) => f[n] = Unresolved}} :
                p \in PVCLists}

\* The answers the whole controller is run against: two claims, one
\* replication class at most.
TwoClaims(sc1, sc2) == [n \in PVCNames |-> IF n = 1 THEN sc1 ELSE IF n = 2 THEN sc2 ELSE Unresolved]
MachineClassifyInputs ==
    {ClassifyInput(TRUE, <<>>, FALSE, <<>>, TwoClaims(Unresolved, Unresolved)),
     ClassifyInput(FALSE, <<>>, TRUE, <<>>, TwoClaims(Unresolved, Unresolved)),
     ClassifyInput(FALSE, <<>>, FALSE, <<>>, TwoClaims(Unresolved, Unresolved)),
     ClassifyInput(FALSE, <<1, 2>>, FALSE, <<>>, TwoClaims("csi-a", "csi-b")),
     ClassifyInput(FALSE, <<1, 2>>, FALSE, <<"csi-a">>, TwoClaims("csi-a", "csi-b")),
     ClassifyInput(FALSE, <<1, 2>>, FALSE, <<"csi-a">>, TwoClaims("csi-a", Unresolved))}

(***************************************************************************)
(* Summary conditions: a list of entries, looked up by type.               *)
(***************************************************************************)
Condition(t, s, r, g) == [type |-> t, status |-> s, reason |-> r, observedGeneration |-> g]

findCondition(conditions, t) ==
    LET idx == {i \in 1..Len(conditions) : conditions[i].type = t}
    IN IF idx = {} THEN 0 ELSE CHOOSE i \in idx : \A j \in idx : i <= j

setStatusCondition(conditions, newCondition) ==
    LET i == findCondition(conditions, newCondition.type)
    IN IF i = 0 THEN Append(conditions, newCondition)
       ELSE [conditions EXCEPT ![i] = newCondition]

setVRGInitialCondition(conditions, gen) ==
    LET c1 == setStatusCondition(conditions,
                  Condition(VRGConditionTypeDataReady, ConditionUnknown,
                            VRGConditionReasonInitializing, gen))
        c2 == setStatusCondition(c1,
                  Condition(VRGConditionTypeDataProtected, ConditionUnknown,
                            VRGConditionReasonInitializing, gen))
        c3 == setStatusCondition(c2,
                  Condition(VRGConditionTypeClusterDataReady, ConditionUnknown,
                            VRGConditionReasonInitializing, gen))
    IN setStatusCondition(c3,
                  Condition(VRGConditionTypeClusterDataProtected, ConditionUnknown,
                            VRGConditionReasonInitializing, gen))

setVRGDataErrorCondition(conditions, gen) ==
    setStatusCondition(conditions,
        Condition(VRGConditionTypeDataReady, ConditionFalse, VRGConditionReasonError, gen))

setVRGClusterDataReadyCondition(conditions, gen) ==
    setStatusCondition(conditions,
        Condition(VRGConditionTypeClusterDataReady, ConditionTrue,
                  VRGConditionReasonClusterDataRestored, gen))

setVRGClusterDataErrorCondition(conditions, gen) ==
    setStatusCondition(conditions,
        Condition(VRGConditionTypeClusterDataReady, ConditionFalse,
                  VRGConditionReasonError, gen))

(***************************************************************************)
(* The aggregate verdicts of the two backends, one per summary type.  The  *)
(* VolSync roll-up may produce none (nil).                                 *)
(***************************************************************************)
Verdict(s, r) == [status |-> s, reason |-> r]
NilVerdict == Verdict("nil", "nil")
VerdictReady == Verdict(ConditionTrue, VRGConditionReasonReady)
VerdictProgressing == Verdict(ConditionFalse, VRGConditionReasonProgressing)
VerdictError == Verdict(ConditionFalse, VRGConditionReasonError)

Aggregate(dr, dp, cdp) ==
    [t \in SummaryTypes |->
        IF t = VRGConditionTypeDataReady THEN dr
        ELSE IF t = VRGConditionTypeDataProtected THEN dp ELSE cdp]
AllReady == Aggregate(VerdictReady, VerdictReady, VerdictReady)
Aggregates ==
    {AllReady,
     Aggregate(VerdictError, VerdictProgressing, VerdictProgressing),
     Aggregate(VerdictReady, VerdictReady, VerdictProgressing)}
NilAggregate == [t \in SummaryTypes |-> NilVerdict]
VolSyncAggregates == Aggregates \cup {NilAggregate}

\* The pairs of roll-ups an aggregation is run with.  The VolRep roll-up is
\* asked only when there are VolRep claims.
AggregatePairs(volRepPVCs) ==
    IF Len(volRepPVCs) = 0
    THEN {<<b, NilAggregate>> : b \in VolSyncAggregates}
    ELSE {<<b, a>> : b \in {NilAggregate, AllReady}, a \in Aggregates}

(***************************************************************************)
(* The stored object and the status of a VRG nobody has reconciled yet.    *)
(***************************************************************************)
EmptyStatus ==
    [protectedPVCsNil |-> TRUE, protectedPVCs |-> <<>>, conditions |-> <<>>,
     state |-> NoState, observedGeneration |-> 0, lastUpdateTime |-> 0]

VRGSpec(state, async, syncMode, volSyncDisabled) ==
    [replicationState |-> state, asyncMode |-> async, syncMode |-> syncMode,
     volSyncDisabled |-> volSyncDisabled]

\* The specs users give a VRG.
SpecVariants ==
    {VRGSpec(Primary, ModeEnabled, ModeDisabled, FALSE),
     VRGSpec(Secondary, ModeEnabled, ModeDisabled, FALSE),
     VRGSpec(InvalidState, ModeEnabled, ModeDisabled, FALSE),
     VRGSpec(Primary, ModeDisabled, ModeDisabled, FALSE),
     VRGSpec(Primary, ModeDisabled, ModeEnabled, TRUE)}

NewVRG(s) ==
    [exists |-> TRUE,
     replicationState |-> s.replicationState,
     asyncMode |-> s.asyncMode,
     syncMode |-> s.syncMode,
     volSyncDisabled |-> s.volSyncDisabled,
     deletionTimestamp |-> FALSE,
     finalizers |-> <<>>,
     generation |-> 1,
     status |-> EmptyStatus]

SpecOf(o) ==
    [replicationState |-> o.replicationState, asyncMode |-> o.asyncMode,
     syncMode |-> o.syncMode, volSyncDisabled |-> o.volSyncDisabled]

(***************************************************************************)
(* Helpers of the controller.                                              *)
(***************************************************************************)
\* Faulty variant: any finalizer on the object counts as the one looked for.
containsString_anyEntry(values, s) == Len(values) # 0

containsString(values, s) == \E i \in 1..Len(values) : values[i] = s

\* Faulty variant: nothing is taken out of the list.
removeString_keepsAll(values, s) == values

removeString(values, s) == SelectSeq(values, LAMBDA item : item # s)

getStatusStateFromSpecState(state) ==
    IF state = Primary THEN PrimaryState
    ELSE IF state = Secondary THEN SecondaryState
    ELSE UnknownState

\* Faulty variant: any desired role passes.
validateVRGState_acceptsAll(instance) == TRUE

\* TRUE when the check passes (the Go function returns a nil error).
validateVRGState(instance) ==
    ~(instance.replicationState # Primary /\ instance.replicationState # Secondary)

validateVRGMode(instance) ==
    LET async == instance.asyncMode = ModeEnabled
        syncOn == instance.syncMode = ModeEnabled
    IN ~(~syncOn /\ ~async)

initializeStatus(instance) ==
    IF instance.status.protectedPVCsNil
    THEN [instance.status EXCEPT
            !.protectedPVCsNil = FALSE,
            !.protectedPVCs = <<>>,
            !.conditions = setVRGInitialCondition(@, instance.generation)]
    ELSE instance.status

(***************************************************************************)
(* Volume classification.  The lists are the slices v.volRepPVCs and       *)
(* v.volSyncPVCs; a claim is its name.                                     *)
(***************************************************************************)
EmptyLists == [volRepPVCs |-> <<>>, volSyncPVCs |-> <<>>]

\* The double loop of separatePVCsUsingVRGStatus, pair k of (claim, record).
RECURSIVE separateByStatusFrom(_, _, _, _)
separateByStatusFrom(pvcList, protectedPVCs, k, lists) ==
    IF k > Len(pvcList) * Len(protectedPVCs) THEN lists
    ELSE LET pvc == pvcList[((k - 1) \div Len(protectedPVCs)) + 1]
             protectedPVC == protectedPVCs[((k - 1) % Len(protectedPVCs)) + 1]
             next == IF pvc # protectedPVC.name THEN lists
                     ELSE IF protectedPVC.protectedByVolSync
                          THEN [lists EXCEPT !.volSyncPVCs = Append(@, pvc)]
                          ELSE [lists EXCEPT !.volRepPVCs = Append(@, pvc)]
         IN separateByStatusFrom(pvcList, protectedPVCs, k + 1, next)

RECURSIVE separateByStatusFlippedFrom(_, _, _, _)
separateByStatusFlippedFrom(pvcList, protectedPVCs, k, lists) ==
    IF k > Len(pvcList) * Len(protectedPVCs) THEN lists
    ELSE LET pvc == pvcList[((k - 1) \div Len(protectedPVCs)) + 1]
             protectedPVC == protectedPVCs[((k - 1) % Len(protectedPVCs)) + 1]
             next == IF pvc # protectedPVC.name THEN lists
                     ELSE IF ~protectedPVC.protectedByVolSync
                          THEN [lists EXCEPT !.volSyncPVCs = Append(@, pvc)]
                          ELSE [lists EXCEPT !.volRepPVCs = Append(@, pvc)]
         IN separateByStatusFlippedFrom(pvcList, protectedPVCs, k + 1, next)

\* Faulty variant: the recorded flag is read the wrong way round.
separatePVCsUsingVRGStatus_flagFlipped(pvcList, protectedPVCs, lists) ==
    separateByStatusFlippedFrom(pvcList, protectedPVCs, 1, lists)

separatePVCsUsingVRGStatus(pvcList, protectedPVCs, lists) ==
    separateByStatusFrom(pvcList, protectedPVCs, 1, lists)

\* The loop of separatePVCsUsingStorageClassProvisioner from claim idx on.
\* perMatch: append once per matching class (the inner loop without its break).
\* dropNoMatch: a claim no class matches is left out.
RECURSIVE separateByProvisionerFrom(_, _, _, _, _, _, _)
separateByProvisionerFrom(pvcList, replClassList, sc, idx, acc, perMatch, dropNoMatch) ==
    IF idx > Len(pvcList) THEN acc
    ELSE LET pvc == pvcList[idx]
             withGet == [acc EXCEPT !.calls = Append(@, "getStorageClass")]
         IN IF sc[pvc] = Unresolved
            THEN [withGet EXCEPT !.err = TRUE, !.calls = Append(@, "getStorageClass:fail")]
            ELSE LET matches == {i \in 1..Len(replClassList) : replClassList[i] = sc[pvc]}
                     copies == IF perMatch THEN Cardinality(matches) ELSE 1
                     next == IF matches # {}
                             THEN [withGet EXCEPT !.volRepPVCs = @ \o [i \in 1..copies |-> pvc]]
                             ELSE IF dropNoMatch THEN withGet
                             ELSE [withGet EXCEPT !.volSyncPVCs = Append(@, pvc)]
                 IN separateByProvisionerFrom(pvcList, replClassList, sc, idx + 1, next,
                                              perMatch, dropNoMatch)

\* Faulty variant: the inner loop over the replication classes has lost its break.
separatePVCsUsingStorageClassProvisioner_noBreak(pvcList, replClassList, sc, acc) ==
    separateByProvisionerFrom(pvcList, replClassList, sc, 1, acc, TRUE, FALSE)

\* Faulty variant: a claim whose provisioner matches no class is dropped.
separatePVCsUsingStorageClassProvisioner_dropsUnmatched(pvcList, replClassList, sc, acc) ==
    separateByProvisionerFrom(pvcList, replClassList, sc, 1, acc, FALSE, TRUE)

\* Faulty variant: only the first replication class is compared.
separatePVCsUsingStorageClassProvisioner_firstClassOnly(pvcList, replClassList, sc, acc) ==
    separateByProvisionerFrom(pvcList, SubSeq(replClassList, 1, 1), sc, 1, acc, FALSE, FALSE)

separatePVCsUsingStorageClassProvisioner(pvcList, replClassList, sc, acc) ==
    separateByProvisionerFrom(pvcList, replClassList, sc, 1, acc, FALSE, FALSE)

\* The result of a classification that has listed nothing yet.
NoClassification ==
    [err |-> FALSE, volRepPVCs |-> <<>>, volSyncPVCs |-> <<>>,
     replClassList |-> <<>>, vrcUpdated |-> FALSE, calls |-> <<>>]

\* Faulty variant: with no replication class the claims go to VolRep.
updatePVCListForAll_noClassToVolRep(instance, listFails, pvcList, vrcFails, vrcs, sc) ==
    LET listed == [NoClassification EXCEPT !.calls = <<"listPVCs">>]
    IN IF listFails THEN [listed EXCEPT !.err = TRUE, !.calls = Append(@, "listPVCs:fail")]
       ELSE LET asked == [listed EXCEPT !.calls = Append(@, "listVRCs")]
            IN IF vrcFails
               THEN [asked EXCEPT !.err = TRUE, !.calls = Append(@, "listVRCs:fail")]
               ELSE LET got == [asked EXCEPT !.replClassList = vrcs, !.vrcUpdated = TRUE]
                    IN IF instance.deletionTimestamp
                       THEN LET l == separatePVCsUsingVRGStatus(
                                        pvcList, instance.status.protectedPVCs, EmptyLists)
                            IN [got EXCEPT !.volRepPVCs = l.volRepPVCs,
                                           !.volSyncPVCs = l.volSyncPVCs]
                       ELSE IF Len(vrcs) = 0
                       THEN [got EXCEPT !.volRepPVCs = pvcList]
                       ELSE separatePVCsUsingStorageClassProvisioner(pvcList, vrcs, sc, got)

updatePVCListForAll(instance, listFails, pvcList, vrcFails, vrcs, sc) ==
    LET listed == [NoClassification EXCEPT !.calls = <<"listPVCs">>]
    IN IF listFails THEN [listed EXCEPT !.err = TRUE, !.calls = Append(@, "listPVCs:fail")]
       ELSE LET asked == [listed EXCEPT !.calls = Append(@, "listVRCs")]
            IN IF vrcFails
               THEN [asked EXCEPT !.err = TRUE, !.calls = Append(@, "listVRCs:fail")]
               ELSE LET got == [asked EXCEPT !.replClassList = vrcs, !.vrcUpdated = TRUE]
                    IN IF instance.deletionTimestamp
                       THEN LET l == separatePVCsUsingVRGStatus(
                                        pvcList, instance.status.protectedPVCs, EmptyLists)
                            IN [got EXCEPT !.volRepPVCs = l.volRepPVCs,
                                           !.volSyncPVCs = l.volSyncPVCs,
                                           !.calls = Append(@, "separateUsingVRGStatus")]
                       ELSE IF Len(vrcs) = 0
                       THEN [got EXCEPT !.volSyncPVCs = pvcList]
                       ELSE separatePVCsUsingStorageClassProvisioner(pvcList, vrcs, sc, got)

\* Faulty variant: the error of the classification is dropped and the lists
\* built so far are used.
updatePVCList_ignoresError(instance, listFails, pvcList, vrcFails, vrcs, sc) ==
    IF instance.volSyncDisabled
    THEN LET listed == [NoClassification EXCEPT !.calls = <<"listPVCs">>]
         IN IF listFails
            THEN [listed EXCEPT !.calls = Append(@, "listPVCs:fail")]
            ELSE [listed EXCEPT !.volRepPVCs = pvcList]
    ELSE [updatePVCListForAll(instance, listFails, pvcList, vrcFails, vrcs, sc)
             EXCEPT !.err = FALSE]

\* Faulty variant: the VolSync switch of the spec is not looked at.
updatePVCList_ignoresSwitch(instance, listFails, pvcList, vrcFails, vrcs, sc) ==
    updatePVCListForAll(instance, listFails, pvcList, vrcFails, vrcs, sc)

updatePVCList(instance, listFails, pvcList, vrcFails, vrcs, sc) ==
    IF instance.volSyncDisabled
    THEN LET listed == [NoClassification EXCEPT !.calls = <<"listPVCs">>]
         IN IF listFails
            THEN [listed EXCEPT !.err = TRUE, !.calls = Append(@, "listPVCs:fail")]
            ELSE [listed EXCEPT !.volRepPVCs = pvcList]
    ELSE updatePVCListForAll(instance, listFails, pvcList, vrcFails, vrcs, sc)

(***************************************************************************)
(* Cluster-data restore, the backends, condition aggregation, status.      *)
(***************************************************************************)
\* Faulty variant: the ClusterDataReady condition is not consulted before restoring.
restorePVs_notSticky(instance, restoreVolSyncFails, restoreVolRepFails) ==
    IF restoreVolSyncFails
    THEN [err |-> TRUE, conditions |-> instance.status.conditions,
          calls |-> <<"restorePVsForVolSync", "restorePVsForVolSync:fail">>]
    ELSE IF restoreVolRepFails
    THEN [err |-> TRUE, conditions |-> instance.status.conditions,
          calls |-> <<"restorePVsForVolSync", "restorePVsForVolRep",
                      "restorePVsForVolRep:fail">>]
    ELSE [err |-> FALSE,
          conditions |-> setVRGClusterDataReadyCondition(instance.status.conditions,
                                                         instance.generation),
          calls |-> <<"restorePVsForVolSync", "restorePVsForVolRep">>]

\* Faulty variant: a failed VolSync restore is logged and the VolRep restore runs.
restorePVs_ignoresVolSyncFailure(instance, restoreVolSyncFails, restoreVolRepFails) ==
    LET conditions == instance.status.conditions
        i == findCondition(conditions, VRGConditionTypeClusterDataReady)
        first == IF restoreVolSyncFails
                 THEN <<"restorePVsForVolSync", "restorePVsForVolSync:fail">>
                 ELSE <<"restorePVsForVolSync">>
    IN IF i # 0 /\ conditions[i].status = ConditionTrue
               /\ conditions[i].observedGeneration = instance.generation
       THEN [err |-> FALSE, conditions |-> conditions, calls |-> <<>>]
       ELSE IF restoreVolRepFails
       THEN [err |-> TRUE, conditions |-> conditions,
             calls |-> first \o <<"restorePVsForVolRep", "restorePVsForVolRep:fail">>]
       ELSE [err |-> FALSE,
             conditions |-> setVRGClusterDataReadyCondition(conditions, instance.generation),
             calls |-> first \o <<"restorePVsForVolRep">>]

restorePVs(instance, restoreVolSyncFails, restoreVolRepFails) ==
    LET conditions == instance.status.conditions
        i == findCondition(conditions, VRGConditionTypeClusterDataReady)
    IN IF i # 0 /\ conditions[i].status = ConditionTrue
               /\ conditions[i].observedGeneration = instance.generation
       THEN [err |-> FALSE, conditions |-> conditions, calls |-> <<>>]
       ELSE IF restoreVolSyncFails
       THEN [err |-> TRUE, conditions |-> conditions,
             calls |-> <<"restorePVsForVolSync", "restorePVsForVolSync:fail">>]
       ELSE IF restoreVolRepFails
       THEN [err |-> TRUE, conditions |-> conditions,
             calls |-> <<"restorePVsForVolSync", "restorePVsForVolRep",
                         "restorePVsForVolRep:fail">>]
       ELSE [err |-> FALSE,
             conditions |-> setVRGClusterDataReadyCondition(conditions, instance.generation),
             calls |-> <<"restorePVsForVolSync", "restorePVsForVolRep">>]

\* What a backend driver leaves in status.protectedPVCs for the claims it was
\* given: one record per claim name, kept in name order.
protectPVCs(protectedPVCs, claims, byVolSync) ==
    LET old == {protectedPVCs[i].name : i \in 1..Len(protectedPVCs)}
        order == SetToSeq(old \cup Range(claims))
        record(n) == IF n \in Range(claims)
                     THEN [name |-> n, protectedByVolSync |-> byVolSync]
                     ELSE protectedPVCs[CHOOSE i \in 1..Len(protectedPVCs) :
                                            protectedPVCs[i].name = n]
    IN [i \in 1..Len(order) |-> record(order[i])]

\* Faulty variant: a requeue is passed on only when both backends ask for it.
reconcileAsPrimary_bothMustRequeue(protectedPVCs, volRepPVCs, volSyncPVCs, requeueForVolSync, requeueForVolRep) ==
    LET viaVolSync == Len(volSyncPVCs) # 0
        p1 == IF viaVolSync THEN protectPVCs(protectedPVCs, volSyncPVCs, TRUE)
              ELSE protectedPVCs
    IN [requeue |-> (viaVolSync /\ requeueForVolSync) /\ requeueForVolRep,
        protectedPVCs |-> protectPVCs(p1, volRepPVCs, FALSE),
        calls |-> (IF viaVolSync THEN <<"reconcileVolSyncAsPrimary">> ELSE <<>>)
                  \o (IF viaVolSync /\ requeueForVolSync
                      THEN <<"reconcileVolSyncAsPrimary:requeue">> ELSE <<>>)
                  \o <<"reconcileVolRepsAsPrimary">>
                  \o (IF requeueForVolRep
                      THEN <<"reconcileVolRepsAsPrimary:requeue">> ELSE <<>>)]

reconcileAsPrimary(protectedPVCs, volRepPVCs, volSyncPVCs, requeueForVolSync, requeueForVolRep) ==
    LET viaVolSync == Len(volSyncPVCs) # 0
        p1 == IF viaVolSync THEN protectPVCs(protectedPVCs, volSyncPVCs, TRUE)
              ELSE protectedPVCs
    IN [requeue |-> (viaVolSync /\ requeueForVolSync) \/ requeueForVolRep,
        protectedPVCs |-> protectPVCs(p1, volRepPVCs, FALSE),
        calls |-> (IF viaVolSync THEN <<"reconcileVolSyncAsPrimary">> ELSE <<>>)
                  \o (IF viaVolSync /\ requeueForVolSync
                      THEN <<"reconcileVolSyncAsPrimary:requeue">> ELSE <<>>)
                  \o <<"reconcileVolRepsAsPrimary">>
                  \o (IF requeueForVolRep
                      THEN <<"reconcileVolRepsAsPrimary:requeue">> ELSE <<>>)]

\* Faulty variant: the VolRep backend is asked even after VolSync asked for a requeue.
reconcileAsSecondary_noShortCircuit(protectedPVCs, volRepPVCs, volSyncPVCs, requeueForVolSync, requeueForVolRep) ==
    LET p1 == protectPVCs(protectedPVCs, volSyncPVCs, TRUE)
    IN [requeue |-> requeueForVolSync \/ requeueForVolRep,
        protectedPVCs |-> protectPVCs(p1, volRepPVCs, FALSE),
        calls |-> <<"reconcileVolSyncAsSecondary">>
                  \o (IF requeueForVolSync
                      THEN <<"reconcileVolSyncAsSecondary:requeue">> ELSE <<>>)
                  \o <<"reconcileVolRepsAsSecondary">>
                  \o (IF requeueForVolRep
                      THEN <<"reconcileVolRepsAsSecondary:requeue">> ELSE <<>>)]

reconcileAsSecondary(protectedPVCs, volRepPVCs, volSyncPVCs, requeueForVolSync, requeueForVolRep) ==
    LET p1 == protectPVCs(protectedPVCs, volSyncPVCs, TRUE)
    IN IF requeueForVolSync
       THEN [requeue |-> TRUE, protectedPVCs |-> p1,
             calls |-> <<"reconcileVolSyncAsSecondary", "reconcileVolSyncAsSecondary:requeue">>]
       ELSE [requeue |-> requeueForVolRep,
             protectedPVCs |-> protectPVCs(p1, volRepPVCs, FALSE),
             calls |-> <<"reconcileVolSyncAsSecondary", "reconcileVolRepsAsSecondary">>
                       \o (IF requeueForVolRep
                           THEN <<"reconcileVolRepsAsSecondary:requeue">> ELSE <<>>)]

handleVRGMode(state, protectedPVCs, volRepPVCs, volSyncPVCs, requeueForVolSync, requeueForVolRep) ==
    IF state = Primary
    THEN reconcileAsPrimary(protectedPVCs, volRepPVCs, volSyncPVCs,
                            requeueForVolSync, requeueForVolRep)
    ELSE IF state = Secondary
    THEN reconcileAsSecondary(protectedPVCs, volRepPVCs, volSyncPVCs,
                              requeueForVolSync, requeueForVolRep)
    ELSE [requeue |-> FALSE, protectedPVCs |-> protectedPVCs, calls |-> <<>>]

SummaryCondition(t, verdict, gen) == Condition(t, verdict.status, verdict.reason, gen)

\* Faulty variant: the VolSync verdict is stored after the VolRep verdict.
updateVRGDataReadyCondition_volSyncLast(conditions, volRepPVCs, volSyncAgg, volRepAgg, gen) ==
    LET t == VRGConditionTypeDataReady
        c1 == IF Len(volRepPVCs) # 0
              THEN setStatusCondition(conditions, SummaryCondition(t, volRepAgg[t], gen))
              ELSE conditions
    IN IF volSyncAgg[t] # NilVerdict
       THEN setStatusCondition(c1, SummaryCondition(t, volSyncAgg[t], gen))
       ELSE c1

updateVRGDataReadyCondition(conditions, volRepPVCs, volSyncAgg, volRepAgg, gen) ==
    LET t == VRGConditionTypeDataReady
        c1 == IF volSyncAgg[t] # NilVerdict
              THEN setStatusCondition(conditions, SummaryCondition(t, volSyncAgg[t], gen))
              ELSE conditions
    IN IF Len(volRepPVCs) # 0
       THEN setStatusCondition(c1, SummaryCondition(t, volRepAgg[t], gen))
       ELSE c1

updateVRGDataProtectedCondition(conditions, volRepPVCs, volSyncAgg, volRepAgg, gen) ==
    LET t == VRGConditionTypeDataProtected
        c1 == IF volSyncAgg[t] # NilVerdict /\ Len(volRepPVCs) = 0
              THEN setStatusCondition(conditions, SummaryCondition(t, volSyncAgg[t], gen))
              ELSE conditions
    IN IF Len(volRepPVCs) # 0
       THEN setStatusCondition(c1, SummaryCondition(t, volRepAgg[t], gen))
       ELSE c1

updateVRGClusterDataProtectedCondition(conditions, volRepPVCs, volSyncAgg, volRepAgg, gen) ==
    LET t == VRGConditionTypeClusterDataProtected
        c1 == IF volSyncAgg[t] # NilVerdict
              THEN setStatusCondition(conditions, SummaryCondition(t, volSyncAgg[t], gen))
              ELSE conditions
    IN IF Len(volRepPVCs) # 0
       THEN setStatusCondition(c1, SummaryCondition(t, volRepAgg[t], gen))
       ELSE c1

updateVRGConditions(conditions, volRepPVCs, volSyncAgg, volRepAgg, gen) ==
    LET c1 == updateVRGDataReadyCondition(conditions, volRepPVCs, volSyncAgg, volRepAgg, gen)
        c2 == updateVRGDataProtectedCondition(c1, volRepPVCs, volSyncAgg, volRepAgg, gen)
    IN updateVRGClusterDataProtectedCondition(c2, volRepPVCs, volSyncAgg, volRepAgg, gen)

\* Faulty variant: the error reason of DataReady is not looked at.
updateStatusState_ignoresError(instance) ==
    LET conditions == instance.status.conditions
        i == findCondition(conditions, VRGConditionTypeDataReady)
        StatusState == getStatusStateFromSpecState(instance.replicationState)
    IN IF i = 0 THEN instance.status
       ELSE IF conditions[i].status = ConditionTrue
       THEN [instance.status EXCEPT !.state = StatusState]
       ELSE IF StatusState = UnknownState
       THEN [instance.status EXCEPT !.state = StatusState]
       ELSE instance.status

\* The status after updateStatusState.
updateStatusState(instance) ==
    LET conditions == instance.status.conditions
        i == findCondition(conditions, VRGConditionTypeDataReady)
        StatusState == getStatusStateFromSpecState(instance.replicationState)
    IN IF i = 0 THEN instance.status
       ELSE IF conditions[i].status = ConditionTrue
       THEN [instance.status EXCEPT !.state = StatusState]
       ELSE IF conditions[i].reason = VRGConditionReasonError
       THEN [instance.status EXCEPT !.state = UnknownState]
       ELSE IF StatusState = UnknownState
       THEN [instance.status EXCEPT !.state = StatusState]
       ELSE instance.status

\* Faulty variant: a condition that is not False counts as True.
ConditionIsTrue_notFalse(conditions, t) ==
    LET i == findCondition(conditions, t)
    IN i # 0 /\ conditions[i].status # ConditionFalse

ConditionIsTrue(conditions, t) ==
    LET i == findCondition(conditions, t)
    IN i # 0 /\ conditions[i].status = ConditionTrue

\* Faulty variant: ClusterDataProtected is not required.
areRequiredConditionsReady_twoOnly(conditions) ==
    /\ ConditionIsTrue(conditions, VRGConditionTypeDataReady)
    /\ ConditionIsTrue(conditions, VRGConditionTypeDataProtected)

areRequiredConditionsReady(conditions) ==
    /\ ConditionIsTrue(conditions, VRGConditionTypeDataReady)
    /\ ConditionIsTrue(conditions, VRGConditionTypeDataProtected)
    /\ ConditionIsTrue(conditions, VRGConditionTypeClusterDataProtected)

\* Faulty variant: the status is written whether or not it changed.
statusChanged_always(saved, status) == TRUE

\* The comparison that decides whether updateVRGStatus writes.
statusChanged(saved, status) == saved # status

\* Faulty variant: observedGeneration is left as it was loaded.
updateVRGStatus_keepsObservedGeneration(instance, saved, volRepPVCs, updateConditions, volSyncAgg, volRepAgg, writeOK) ==
    LET conditions == IF updateConditions
                      THEN updateVRGConditions(instance.status.conditions, volRepPVCs,
                                               volSyncAgg, volRepAgg, instance.generation)
                      ELSE instance.status.conditions
        status == updateStatusState([instance EXCEPT !.status.conditions = conditions])
    IN IF statusChanged(saved, status)
       THEN LET stamped == [status EXCEPT !.lastUpdateTime = @ + 1]
            IN IF ~writeOK
               THEN [ran |-> TRUE, status |-> stamped, issued |-> TRUE, err |-> TRUE,
                     requeue |-> TRUE]
               ELSE [ran |-> TRUE, status |-> stamped, issued |-> TRUE, err |-> FALSE,
                     requeue |-> ~areRequiredConditionsReady(stamped.conditions)]
       ELSE [ran |-> TRUE, status |-> status, issued |-> FALSE, err |-> FALSE,
             requeue |-> ~areRequiredConditionsReady(status.conditions)]

\* updateVRGStatus: the status it computes, whether it issued the status
\* Update, whether that failed, and the requeue signal it returns.
updateVRGStatus(instance, saved, volRepPVCs, updateConditions, volSyncAgg, volRepAgg, writeOK) ==
    LET conditions == IF updateConditions
                      THEN updateVRGConditions(instance.status.conditions, volRepPVCs,
                                               volSyncAgg, volRepAgg, instance.generation)
                      ELSE instance.status.conditions
        withState == updateStatusState([instance EXCEPT !.status.conditions = conditions])
        status == [withState EXCEPT !.observedGeneration = instance.generation]
    IN IF statusChanged(saved, status)
       THEN LET stamped == [status EXCEPT !.lastUpdateTime = @ + 1]
            IN IF ~writeOK
               THEN [ran |-> TRUE, status |-> stamped, issued |-> TRUE, err |-> TRUE,
                     requeue |-> TRUE]
               ELSE [ran |-> TRUE, status |-> stamped, issued |-> TRUE, err |-> FALSE,
                     requeue |-> ~areRequiredConditionsReady(stamped.conditions)]
       ELSE [ran |-> TRUE, status |-> status, issued |-> FALSE, err |-> FALSE,
             requeue |-> ~areRequiredConditionsReady(status.conditions)]

\* Faulty variant: the desired role is looked at before the deletion timestamp.
processVRGActions_roleFirst(instance) ==
    IF instance.replicationState = Primary THEN "processAsPrimary"
    ELSE IF instance.deletionTimestamp THEN "processForDeletion"
    ELSE "processAsSecondary"

processVRGActions(instance) ==
    IF instance.deletionTimestamp THEN "processForDeletion"
    ELSE IF instance.replicationState = Primary THEN "processAsPrimary"
    ELSE "processAsSecondary"

(***************************************************************************)
(* The state of an invocation.                                             *)
(***************************************************************************)
NoRequeue == [Requeue |-> FALSE, RequeueAfter |-> 0, err |-> FALSE]
RequeueNow == [Requeue |-> TRUE, RequeueAfter |-> 0, err |-> FALSE]
RequeueAfterSecond == [Requeue |-> FALSE, RequeueAfter |-> 1, err |-> FALSE]
ReturnError == [Requeue |-> FALSE, RequeueAfter |-> 0, err |-> TRUE]

NoObject ==
    [NewVRG([replicationState |-> InvalidState, asyncMode |-> ModeDisabled,
             syncMode |-> ModeDisabled, volSyncDisabled |-> FALSE])
        EXCEPT !.exists = FALSE]

NoInstance ==
    [instance |-> NoObject, savedInstanceStatus |-> EmptyStatus,
     volRepPVCs |-> <<>>, volSyncPVCs |-> <<>>,
     replClassList |-> <<>>, vrcUpdated |-> FALSE]

NoSync == [ran |-> FALSE, issued |-> FALSE, err |-> FALSE, requeue |-> FALSE]
SyncOf(o) == [ran |-> o.ran, issued |-> o.issued, err |-> o.err, requeue |-> o.requeue]

NotQuiet == [passed |-> FALSE, failedWrite |-> FALSE]

NoEnv ==
    [getFails |-> FALSE, listFails |-> FALSE, pvcList |-> <<>>, vrcFails |-> FALSE,
     vrcs |-> <<>>, sc |-> [n \in PVCNames |-> Unresolved],
     updateFails |-> FALSE, statusFails |-> FALSE,
     delRequeue |-> FALSE, s3Fails |-> FALSE,
     restoreVolSyncFails |-> FALSE, restoreVolRepFails |-> FALSE,
     requeueForVolSync |-> FALSE, requeueForVolRep |-> FALSE,
     volSyncAgg |-> NilAggregate, volRepAgg |-> NilAggregate]
NoEvent == [kind |-> "none"]

\* Faulty variant: the store takes a write of a copy that is out of date.
WriteAccepted_noConflictCheck(callFails) == vrg.exists /\ ~callFails

\* The API server accepts a write of this invocation's copy: the object is
\* there, nobody wrote it since the Get (resourceVersion), the call works.
WriteAccepted(callFails) == vrg.exists /\ ~stale /\ ~callFails

\* Faulty variant: the status is forced into the store whatever the store answers.
StoreStatus_lastWriteWins(o, status) ==
    IF o.issued THEN [vrg EXCEPT !.status = status] ELSE vrg

\* The store after the status Update of outcome o.
StoreStatus(o, status) ==
    IF o.issued /\ ~o.err THEN [vrg EXCEPT !.status = status] ELSE vrg

\* Faulty variant: a failed status write is issued a second time.
StatusCalls_retriesOnFailure(o) ==
    IF ~o.issued THEN <<>>
    ELSE IF o.err THEN <<"statusUpdate:fail", "statusUpdate:fail">>
    ELSE <<"statusUpdate:ok">>

StatusCalls(o) ==
    IF ~o.issued THEN <<>>
    ELSE IF o.err THEN <<"statusUpdate:fail">> ELSE <<"statusUpdate:ok">>

\* The invocation ends after a status synchronisation of instance i.
FinishWithStatus(i, o, res, more) ==
    /\ v' = [v EXCEPT !.instance = [i EXCEPT !.status = o.status]]
    /\ vrg' = StoreStatus(o, o.status)
    /\ sync' = SyncOf(o)
    /\ calls' = calls \o more \o StatusCalls(o)
    /\ result' = res
    /\ pc' = "done"

(***************************************************************************)
(* Reconcile: the Get of the VRG and the snapshot of its status.           *)
(***************************************************************************)
Reconcile(getFails) ==
    /\ UNCHANGED watch
    /\ pc = "idle"
    /\ vrg.status.lastUpdateTime < MaxTime
    /\ stale' = FALSE
    /\ calls' = IF vrg.exists /\ getFails THEN <<"get", "get:fail">> ELSE <<"get">>
    /\ sync' = NoSync
    /\ UNCHANGED <<vrg, env, quiet>>
    /\ IF ~vrg.exists
       THEN /\ pc' = "done"
            /\ result' = NoRequeue
            /\ v' = NoInstance
       ELSE IF getFails
       THEN /\ pc' = "done"
            /\ result' = ReturnError
            /\ v' = NoInstance
       ELSE /\ pc' = "loaded"
            /\ result' = NoRequeue
            /\ v' = [NoInstance EXCEPT
                        !.instance = vrg,
                        !.savedInstanceStatus =
                            [vrg.status EXCEPT !.protectedPVCsNil = FALSE]]

(***************************************************************************)
(* processVRG: initialise the status, validate, classify the claims.       *)
(***************************************************************************)
processVRG(listFails, pvcList, vrcFails, vrcs, sc, statusFails) ==
    /\ UNCHANGED watch
    /\ pc = "loaded"
    /\ UNCHANGED <<stale, env, quiet>>
    /\ LET inst == [v.instance EXCEPT !.status = initializeStatus(v.instance)]
           failed == [inst EXCEPT !.status.conditions =
                         setVRGDataErrorCondition(@, inst.generation)]
           o == updateVRGStatus(failed, v.savedInstanceStatus, v.volRepPVCs, FALSE,
                                NilAggregate, NilAggregate, WriteAccepted(statusFails))
       IN IF ~validateVRGState(inst) \/ ~validateVRGMode(inst)
          THEN FinishWithStatus(failed, o, IF o.err THEN RequeueNow ELSE NoRequeue,
                                <<"event:ValidationFailed">>)
          ELSE LET c == updatePVCList(inst, listFails, pvcList, vrcFails, vrcs, sc)
                   lists == [v EXCEPT !.volRepPVCs = c.volRepPVCs,
                                      !.volSyncPVCs = c.volSyncPVCs,
                                      !.replClassList = c.replClassList,
                                      !.vrcUpdated = c.vrcUpdated]
                   o2 == updateVRGStatus(failed, v.savedInstanceStatus, c.volRepPVCs, FALSE,
                                NilAggregate, NilAggregate, WriteAccepted(statusFails))
               IN IF c.err
                  THEN /\ v' = [lists EXCEPT !.instance = [failed EXCEPT !.status = o2.status]]
                       /\ vrg' = StoreStatus(o2, o2.status)
                       /\ sync' = SyncOf(o2)
                       /\ calls' = calls \o c.calls \o <<"event:ValidationFailed">>
                                         \o StatusCalls(o2)
                       /\ result' = RequeueNow
                       /\ pc' = "done"
                  ELSE /\ v' = [lists EXCEPT !.instance = inst]
                       /\ calls' = calls \o c.calls \o <<"classified", processVRGActions(inst)>>
                       /\ pc' = processVRGActions(inst)
                       /\ UNCHANGED <<vrg, sync, result>>

(***************************************************************************)
(* processForDeletion, with removeFinalizer's Update of the object.        *)
(***************************************************************************)
\* Faulty variant: the cluster data in the S3 stores is not waited for.
deletionMayProceed_ignoresS3(instance, delRequeue, s3Fails) == ~delRequeue

\* The finalizer may go: lines 676-689 have not returned a requeue.
deletionMayProceed(instance, delRequeue, s3Fails) ==
    /\ ~delRequeue
    /\ instance.replicationState = Primary => ~s3Fails

processForDeletion(delRequeue, s3Fails, updateFails) ==
    /\ UNCHANGED watch
    /\ pc = "processForDeletion"
    /\ pc' = "done"
    /\ UNCHANGED <<stale, sync, env, quiet>>
    /\ LET inst == v.instance
           del == <<IF delRequeue THEN "reconcileVRsForDeletion:requeue"
                    ELSE "reconcileVRsForDeletion:ok">>
           s3 == IF delRequeue \/ inst.replicationState # Primary THEN <<>>
                 ELSE <<IF s3Fails THEN "deleteClusterDataInS3Stores:fail"
                        ELSE "deleteClusterDataInS3Stores:ok">>
           removed == [inst EXCEPT !.finalizers = removeString(@, vrgFinalizerName)]
       IN IF ~containsString(inst.finalizers, vrgFinalizerName)
          THEN /\ result' = NoRequeue
               /\ UNCHANGED <<vrg, v, calls>>
          ELSE IF ~deletionMayProceed(inst, delRequeue, s3Fails)
          THEN /\ result' = RequeueNow
               /\ calls' = calls \o del \o s3
               /\ UNCHANGED <<vrg, v>>
          ELSE IF ~WriteAccepted(updateFails)
          THEN /\ result' = RequeueNow
               /\ calls' = calls \o del \o s3 \o <<"update:fail">>
               /\ v' = [v EXCEPT !.instance = removed]
               /\ UNCHANGED vrg
          ELSE /\ result' = NoRequeue
               /\ calls' = calls \o del \o s3 \o <<"update:ok", "event:DeleteSuccess">>
               /\ v' = [v EXCEPT !.instance = removed]
               /\ vrg' = IF Len(removed.finalizers) = 0
                         THEN NoObject
                         ELSE [removed EXCEPT !.status = vrg.status]

(***************************************************************************)
(* processAsPrimary and processAsSecondary up to the finalizer: add it if  *)
(* it is missing, with an Update of the object.                            *)
(***************************************************************************)
\* Faulty variant: a failed finalizer Update is logged and the branch goes on.
ensureFinalizer_proceedsOnFailure(updateFails, statusFails) ==
    /\ UNCHANGED watch
    /\ pc \in {"processAsPrimary", "processAsSecondary"}
    /\ UNCHANGED <<stale, env, quiet>>
    /\ LET inst == v.instance
           added == [inst EXCEPT !.finalizers = Append(@, vrgFinalizerName)]
           next == IF pc = "processAsPrimary" THEN "restorePVs" ELSE "reconcileAsSecondary"
       IN IF containsString(inst.finalizers, vrgFinalizerName)
          THEN /\ pc' = next
               /\ calls' = Append(calls, "finalizer:present")
               /\ UNCHANGED <<vrg, v, sync, result>>
          ELSE IF WriteAccepted(updateFails)
          THEN /\ pc' = next
               /\ calls' = calls \o <<"update:ok", "finalizer:present">>
               /\ v' = [v EXCEPT !.instance = added]
               /\ vrg' = [added EXCEPT !.status = vrg.status]
               /\ UNCHANGED <<sync, result>>
          ELSE /\ pc' = next
               /\ calls' = Append(calls, "update:fail")
               /\ UNCHANGED <<vrg, v, sync, result>>

ensureFinalizer(updateFails, statusFails) ==
    /\ UNCHANGED watch
    /\ pc \in {"processAsPrimary", "processAsSecondary"}
    /\ UNCHANGED <<stale, env, quiet>>
    /\ LET inst == v.instance
           added == [inst EXCEPT !.finalizers = Append(@, vrgFinalizerName)]
           next == IF pc = "processAsPrimary" THEN "restorePVs" ELSE "reconcileAsSecondary"
           failed == [added EXCEPT !.status.conditions =
                         setVRGDataErrorCondition(@, inst.generation)]
           o == updateVRGStatus(failed, v.savedInstanceStatus, v.volRepPVCs, FALSE,
                                NilAggregate, NilAggregate, WriteAccepted(statusFails))
       IN IF containsString(inst.finalizers, vrgFinalizerName)
          THEN /\ pc' = next
               /\ calls' = Append(calls, "finalizer:present")
               /\ UNCHANGED <<vrg, v, sync, result>>
          ELSE IF WriteAccepted(updateFails)
          THEN /\ pc' = next
               /\ calls' = calls \o <<"update:ok", "finalizer:present">>
               /\ v' = [v EXCEPT !.instance = added]
               /\ vrg' = [added EXCEPT !.status = vrg.status]
               /\ UNCHANGED <<sync, result>>
          ELSE FinishWithStatus(failed, o, RequeueNow, <<"update:fail">>)

(***************************************************************************)
(* processAsPrimary after the finalizer: restore, reconcile, status.       *)
(***************************************************************************)
processAsPrimary(restoreVolSyncFails, restoreVolRepFails, requeueForVolSync, requeueForVolRep, volSyncAgg, volRepAgg, statusFails) ==
    /\ UNCHANGED watch
    /\ pc = "restorePVs"
    /\ UNCHANGED <<stale, env, quiet>>
    /\ LET inst == v.instance
           r == restorePVs(inst, restoreVolSyncFails, restoreVolRepFails)
           failed == [inst EXCEPT !.status.conditions =
                         setVRGClusterDataErrorCondition(@, inst.generation)]
           of == updateVRGStatus(failed, v.savedInstanceStatus, v.volRepPVCs, FALSE,
                                 NilAggregate, NilAggregate, WriteAccepted(statusFails))
           h == handleVRGMode(Primary, inst.status.protectedPVCs, v.volRepPVCs,
                              v.volSyncPVCs, requeueForVolSync, requeueForVolRep)
           handled == [inst EXCEPT !.status.conditions = r.conditions,
                                   !.status.protectedPVCs = h.protectedPVCs]
           o == updateVRGStatus(handled, v.savedInstanceStatus, v.volRepPVCs, TRUE,
                                volSyncAgg, volRepAgg, WriteAccepted(statusFails))
       IN IF r.err
          THEN FinishWithStatus(failed, of, RequeueNow, r.calls)
          ELSE FinishWithStatus(handled, o,
                   IF h.requeue \/ o.err \/ o.requeue THEN RequeueAfterSecond ELSE NoRequeue,
                   r.calls \o h.calls
                       \o (IF h.requeue THEN <<>> ELSE <<"event:PrimarySuccess">>)
                       \o <<"updateVRGConditions">>)

(***************************************************************************)
(* processAsSecondary after the finalizer.                                 *)
(***************************************************************************)
\* Faulty variant: a requeue asked by a backend is not passed on.
processAsSecondary_ignoresBackendRequeue(requeueForVolSync, requeueForVolRep, volSyncAgg, volRepAgg, statusFails) ==
    /\ UNCHANGED watch
    /\ pc = "reconcileAsSecondary"
    /\ UNCHANGED <<stale, env, quiet>>
    /\ LET inst == v.instance
           h == handleVRGMode(Secondary, inst.status.protectedPVCs, v.volRepPVCs,
                              v.volSyncPVCs, requeueForVolSync, requeueForVolRep)
           handled == [inst EXCEPT !.status.protectedPVCs = h.protectedPVCs]
           o == updateVRGStatus(handled, v.savedInstanceStatus, v.volRepPVCs, TRUE,
                                volSyncAgg, volRepAgg, WriteAccepted(statusFails))
       IN FinishWithStatus(handled, o,
              IF o.err \/ o.requeue THEN RequeueAfterSecond ELSE NoRequeue,
              h.calls \o (IF h.requeue THEN <<>> ELSE <<"event:SecondarySuccess">>)
                      \o <<"updateVRGConditions">>)

processAsSecondary(requeueForVolSync, requeueForVolRep, volSyncAgg, volRepAgg, statusFails) ==
    /\ UNCHANGED watch
    /\ pc = "reconcileAsSecondary"
    /\ UNCHANGED <<stale, env, quiet>>
    /\ LET inst == v.instance
           h == handleVRGMode(Secondary, inst.status.protectedPVCs, v.volRepPVCs,
                              v.volSyncPVCs, requeueForVolSync, requeueForVolRep)
           handled == [inst EXCEPT !.status.protectedPVCs = h.protectedPVCs]
           o == updateVRGStatus(handled, v.savedInstanceStatus, v.volRepPVCs, TRUE,
                                volSyncAgg, volRepAgg, WriteAccepted(statusFails))
       IN FinishWithStatus(handled, o,
              IF h.requeue \/ o.err \/ o.requeue THEN RequeueAfterSecond ELSE NoRequeue,
              h.calls \o (IF h.requeue THEN <<>> ELSE <<"event:SecondarySuccess">>)
                      \o <<"updateVRGConditions">>)

(***************************************************************************)
(* The invocation returns; the queue may run the next one.                 *)
(***************************************************************************)
\* counted: the invocation is recorded in quiet as one that ran from its Get
\* to its return with no change from outside (stale is set by such a change).
ReconcileReturn(counted) ==
    /\ UNCHANGED watch
    /\ pc = "done"
    /\ pc' = "idle"
    /\ v' = NoInstance
    /\ sync' = NoSync
    /\ result' = NoRequeue
    /\ calls' = <<>>
    /\ stale' = FALSE
    /\ quiet' = IF counted /\ ~stale
                THEN [passed |-> TRUE, failedWrite |-> sync.err]
                ELSE quiet
    /\ UNCHANGED <<vrg, env>>

(***************************************************************************)
(* The users of the VRG: an edit of its spec (a new generation) and its    *)
(* deletion, at any point between the store calls of an invocation.        *)
(***************************************************************************)
\* The places of an invocation that lie between two store calls: before the
\* Get, between the Get and the first write, and between the Update that adds
\* the finalizer and the status Update.
BetweenStoreCalls == {"idle", "loaded", "restorePVs", "reconcileAsSecondary"}

UserEdit(s) ==
    /\ UNCHANGED watch
    /\ vrg.exists
    /\ pc \in BetweenStoreCalls
    /\ vrg.generation < MaxGen
    /\ s # SpecOf(vrg)
    /\ vrg' = [vrg EXCEPT !.replicationState = s.replicationState,
                          !.asyncMode = s.asyncMode,
                          !.syncMode = s.syncMode,
                          !.volSyncDisabled = s.volSyncDisabled,
                          !.generation = @ + 1]
    /\ stale' = (pc # "idle")
    /\ quiet' = NotQuiet
    /\ UNCHANGED <<pc, v, sync, result, calls, env>>

UserDelete ==
    /\ UNCHANGED watch
    /\ vrg.exists
    /\ pc \in BetweenStoreCalls
    /\ ~vrg.deletionTimestamp
    /\ vrg' = IF Len(vrg.finalizers) = 0 THEN NoObject
              ELSE [vrg EXCEPT !.deletionTimestamp = TRUE]
    /\ stale' = (pc # "idle")
    /\ quiet' = NotQuiet
    /\ UNCHANGED <<pc, v, sync, result, calls, env>>

(***************************************************************************)
(* The controller with every answer of its collaborators open.             *)
(***************************************************************************)
\* The outcomes of the two restores: none fails, the first fails (the second
\* is then not called), the second fails.  Nothing is asked of them when the
\* cluster data is already restored.
RestoreAnswers(instance) ==
    IF restorePVs(instance, TRUE, TRUE).err
    THEN {<<FALSE, FALSE>>, <<TRUE, FALSE>>, <<FALSE, TRUE>>}
    ELSE {<<FALSE, FALSE>>}

\* The answers of reconcileVolSyncAsPrimary, which is called only when there
\* are VolSync claims.
VolSyncAsPrimaryAnswers(volSyncPVCs) ==
    IF Len(volSyncPVCs) # 0 THEN BOOLEAN ELSE {FALSE}

\* The answers of the two drivers as Secondary: the second is not called when
\* the first asks for a requeue.
AsSecondaryAnswers == {<<FALSE, FALSE>>, <<TRUE, FALSE>>, <<FALSE, TRUE>>}

Init ==
    /\ vrg \in {NewVRG(s) : s \in SpecVariants}
    /\ pc = "idle"
    /\ v = NoInstance
    /\ stale = FALSE
    /\ sync = NoSync
    /\ result = NoRequeue
    /\ calls = <<>>
    /\ env = NoEnv
    /\ quiet = NotQuiet
    /\ event = NoEvent
    /\ vrgs = <<>>
    /\ requests = <<>>

Next ==
    \/ \E getFails \in BOOLEAN : Reconcile(getFails)
    \/ \E i \in MachineClassifyInputs, statusFails \in BOOLEAN :
          processVRG(i.listFails, i.pvcList, i.vrcFails, i.vrcs, i.sc, statusFails)
    \/ \E delRequeue \in BOOLEAN, s3Fails \in BOOLEAN, updateFails \in BOOLEAN :
          processForDeletion(delRequeue, s3Fails, updateFails)
    \/ \E updateFails \in BOOLEAN, statusFails \in BOOLEAN :
          ensureFinalizer(updateFails, statusFails)
    \/ \E r \in RestoreAnswers(v.instance),
          requeueForVolSync \in VolSyncAsPrimaryAnswers(v.volSyncPVCs),
          requeueForVolRep \in BOOLEAN,
          agg \in AggregatePairs(v.volRepPVCs), statusFails \in BOOLEAN :
          processAsPrimary(r[1], r[2], requeueForVolSync, requeueForVolRep,
                           agg[1], agg[2], statusFails)
    \/ \E q \in AsSecondaryAnswers,
          agg \in AggregatePairs(v.volRepPVCs), statusFails \in BOOLEAN :
          processAsSecondary(q[1], q[2], agg[1], agg[2], statusFails)
    \/ ReconcileReturn(FALSE)
    \/ \E s \in SpecVariants : UserEdit(s)
    \/ UserDelete

Spec == Init /\ [][Next]_vars

(***************************************************************************)
(* Classification on its own: one invocation that has loaded a valid VRG   *)
(* (deleted or not, VolSync disabled or not, with any per-volume records   *)
(* in status.protectedPVCs) runs processVRG against the answers in env.    *)
(***************************************************************************)
\* status.protectedPVCs: one record per volume, in name order.
ProtectedPVCLists ==
    UNION {{[i \in 1..Len(SetToSeq(S)) |->
                [name |-> SetToSeq(S)[i], protectedByVolSync |-> f[SetToSeq(S)[i]]]] :
              f \in [S -> BOOLEAN]} :
           S \in SUBSET PVCNames}

ReconciledVRG(s, deleted, protectedPVCs) ==
    [NewVRG(s) EXCEPT
        !.deletionTimestamp = deleted,
        !.finalizers = <<vrgFinalizerName>>,
        !.status = [protectedPVCsNil |-> FALSE,
                    protectedPVCs |-> protectedPVCs,
                    conditions |-> setVRGInitialCondition(<<>>, 1),
                    state |-> NoState,
                    observedGeneration |-> 1,
                    lastUpdateTime |-> 1]]

ClassifyVRGs ==
    {ReconciledVRG(VRGSpec(Primary, ModeEnabled, ModeDisabled, d), deleted, p) :
        d \in BOOLEAN, deleted \in BOOLEAN, p \in ProtectedPVCLists}

EnvOf(i) ==
    [NoEnv EXCEPT !.listFails = i.listFails, !.pvcList = i.pvcList,
                  !.vrcFails = i.vrcFails, !.vrcs = i.vrcs, !.sc = i.sc]

InitClassify ==
    /\ vrg \in ClassifyVRGs
    /\ pc = "loaded"
    /\ v = [NoInstance EXCEPT !.instance = vrg, !.savedInstanceStatus = vrg.status]
    /\ stale = FALSE
    /\ sync = NoSync
    /\ result = NoRequeue
    /\ calls = <<"get">>
    /\ env \in {EnvOf(i) : i \in ClassifyInputs}
    /\ quiet = NotQuiet
    /\ event = NoEvent
    /\ vrgs = <<>>
    /\ requests = <<>>

NextClassify ==
    processVRG(env.listFails, env.pvcList, env.vrcFails, env.vrcs, env.sc, env.statusFails)

SpecClassify == InitClassify /\ [][NextClassify]_vars

\* What a classification has left behind.
Called(name) == \E i \in 1..Len(calls) : calls[i] = name
Classified == Called("classified")
Count(list, n) == Cardinality({i \in 1..Len(list) : list[i] = n})
InVolRep(n) == Count(v.volRepPVCs, n) > 0
InVolSync(n) == Count(v.volSyncPVCs, n) > 0
Excluded(n) == ~InVolRep(n) /\ ~InVolSync(n)
Deleting == v.instance.deletionTimestamp
Recorded(n) ==
    \E i \in 1..Len(v.instance.status.protectedPVCs) :
        v.instance.status.protectedPVCs[i].name = n
RecordedAs(n, byVolSync) ==
    \E i \in 1..Len(v.instance.status.protectedPVCs) :
        /\ v.instance.status.protectedPVCs[i].name = n
        /\ v.instance.status.protectedPVCs[i].protectedByVolSync = byVolSync

(***************************************************************************)
(* C5.  Classification totality: after a classification that succeeded,    *)
(* every listed claim is in exactly one of the VolRep list, the VolSync    *)
(* list and "excluded"; a claim is excluded only when the VRG is being     *)
(* deleted and status.protectedPVCs has no record of its name.             *)
(***************************************************************************)
C5_ClassificationTotal ==
    Classified =>
        \A n \in Range(env.pvcList) :
            /\ \/ InVolRep(n) /\ ~InVolSync(n) /\ Count(v.volRepPVCs, n) = 1
               \/ InVolSync(n) /\ ~InVolRep(n) /\ Count(v.volSyncPVCs, n) = 1
               \/ Excluded(n)
            /\ Excluded(n) => Deleting /\ ~Recorded(n)

\* A deleted VRG with one listed claim excluded and another one kept.
C5_Witness ==
    /\ Classified /\ Deleting
    /\ \E n \in Range(env.pvcList) : Excluded(n)
    /\ \E n \in Range(env.pvcList) : ~Excluded(n)

C7_NoClassAllVolSync ==
    (/\ pc # "loaded" /\ ~Deleting
     /\ Called("listVRCs") /\ ~env.vrcFails /\ env.vrcs = <<>>) =>
        /\ Classified
        /\ v.volSyncPVCs = env.pvcList
        /\ v.volRepPVCs = <<>>
        /\ pc # "done" /\ ~sync.ran /\ result = NoRequeue

\* Every claim there is was listed, and no class.
C7_Witness ==
    /\ Classified /\ ~Deleting
    /\ Called("listVRCs") /\ env.vrcs = <<>>
    /\ Len(env.pvcList) = NumPVCs
    /\ v.volSyncPVCs = env.pvcList

(***************************************************************************)
(* C8 as stated.  When the VRG is being deleted, a listed claim recorded   *)
(* with protectedByVolSync false is a VolRep claim, one recorded with true *)
(* is a VolSync claim, and one with no record is in neither list.          *)
(***************************************************************************)
C8_DeletionReplaysStatus_Original ==
    (Classified /\ Deleting) =>
        \A n \in Range(env.pvcList) :
            /\ RecordedAs(n, FALSE) => InVolRep(n) /\ ~InVolSync(n)
            /\ RecordedAs(n, TRUE) => InVolSync(n) /\ ~InVolRep(n)
            /\ ~Recorded(n) => Excluded(n)

(***************************************************************************)
(* C8, amended.  When the VRG is being deleted and its spec does not       *)
(* disable VolSync, classification replays status.protectedPVCs whatever   *)
(* the storage and replication classes are: a listed claim recorded with   *)
(* protectedByVolSync false is a VolRep claim, one recorded with true is a *)
(* VolSync claim, one with no record is in neither list, and no storage    *)
(* class is looked up.                                                     *)
(***************************************************************************)
C8_DeletionReplaysStatus ==
    (Classified /\ Deleting /\ ~v.instance.volSyncDisabled) =>
        /\ ~Called("getStorageClass")
        /\ v.volRepPVCs =
              SelectSeq(env.pvcList, LAMBDA n : RecordedAs(n, FALSE))
        /\ v.volSyncPVCs =
              SelectSeq(env.pvcList, LAMBDA n : RecordedAs(n, TRUE))

\* Records of both kinds, claims of both kinds listed, replication classes
\* that would have sent the VolSync claim to VolRep.
C8_Witness ==
    /\ Classified /\ Deleting /\ ~v.instance.volSyncDisabled
    /\ \E n \in Range(env.pvcList) :
          RecordedAs(n, TRUE) /\ InVolSync(n) /\ env.sc[n] \in Range(env.vrcs)
    /\ \E n \in Range(env.pvcList) : RecordedAs(n, FALSE) /\ InVolRep(n)

(***************************************************************************)
(* What the claims about the whole controller speak of.                    *)
(***************************************************************************)
FinalizerStored == vrg.exists /\ containsString(vrg.finalizers, vrgFinalizerName)
Loaded == v.instance.exists
ConditionOf(conditions, t) == conditions[findCondition(conditions, t)]
TrueAt(conditions, t, gen) ==
    /\ findCondition(conditions, t) # 0
    /\ ConditionOf(conditions, t).status = ConditionTrue
    /\ ConditionOf(conditions, t).observedGeneration = gen
IsTrue(conditions, t) ==
    /\ findCondition(conditions, t) # 0
    /\ ConditionOf(conditions, t).status = ConditionTrue

(***************************************************************************)
(* C1.  Deletion ordering: the finalizer leaves the stored object only in  *)
(* a step of an invocation in which reconcileVRsForDeletion asked for no   *)
(* requeue and, when the role is Primary, deleteClusterDataInS3Stores      *)
(* returned no error; an invocation in which either failed returns         *)
(* Requeue and the stored object still has the finalizer.                  *)
(***************************************************************************)
C1_RemovalStep ==
    (FinalizerStored /\ ~FinalizerStored') =>
        /\ v'.instance.deletionTimestamp
        /\ Called("reconcileVRsForDeletion:ok")'
        /\ ~Called("reconcileVRsForDeletion:requeue")'
        /\ v'.instance.replicationState = Primary =>
              Called("deleteClusterDataInS3Stores:ok")'
        /\ ~Called("deleteClusterDataInS3Stores:fail")'

C1_FailureRequeues ==
    (pc = "done" /\ (\/ Called("reconcileVRsForDeletion:requeue")
                     \/ Called("deleteClusterDataInS3Stores:fail"))) =>
        /\ result = RequeueNow
        /\ FinalizerStored
        /\ ~Called("update:ok")

C1_DeletionOrdering == [][C1_RemovalStep]_vars /\ []C1_FailureRequeues

\* A Primary VRG whose finalizer has just been removed.
C1_Witness ==
    /\ pc = "done" /\ Loaded
    /\ v.instance.deletionTimestamp /\ v.instance.replicationState = Primary
    /\ Called("deleteClusterDataInS3Stores:ok") /\ Called("update:ok")
    /\ ~FinalizerStored

(***************************************************************************)
(* C3.  Sticky ClusterDataReady: an invocation that loads a Primary VRG of *)
(* generation G whose status has ClusterDataReady True at G calls neither  *)
(* restorePVsForVolSync nor restorePVsForVolRep and keeps the condition    *)
(* True at G, whatever the restores would answer; and in the store the     *)
(* condition stays True at G for as long as the generation is G.           *)
(***************************************************************************)
C3_StickyInvocation ==
    /\ Loaded
    /\ v.instance.replicationState = Primary
    /\ TrueAt(v.savedInstanceStatus.conditions, VRGConditionTypeClusterDataReady,
              v.instance.generation)

C3_NoRestore ==
    C3_StickyInvocation =>
        /\ ~Called("restorePVsForVolSync") /\ ~Called("restorePVsForVolRep")
        /\ TrueAt(v.instance.status.conditions, VRGConditionTypeClusterDataReady,
                  v.instance.generation)

C3_StoredStays ==
    (/\ vrg.exists /\ vrg'.exists /\ vrg'.generation = vrg.generation
     /\ TrueAt(vrg.status.conditions, VRGConditionTypeClusterDataReady, vrg.generation)) =>
        TrueAt(vrg'.status.conditions, VRGConditionTypeClusterDataReady, vrg.generation)

C3_StickyClusterDataReady == []C3_NoRestore /\ [][C3_StoredStays]_vars

\* A later Primary invocation at the same generation went through restorePVs
\* and on to the backends.
C3_Witness ==
    /\ pc = "done" /\ C3_StickyInvocation
    /\ Called("reconcileVolRepsAsPrimary")
    /\ sync.ran

(***************************************************************************)
(* C4.  Validation terminality: an invocation that loads a VRG whose role  *)
(* is neither Primary nor Secondary, or with neither mode enabled, sets    *)
(* the DataReady error condition, runs the status update, lists and        *)
(* classifies no claim, makes no Update of the object, calls no restore    *)
(* and no backend, never returns a RequeueAfter, and returns no requeue    *)
(* at all unless the status write failed.                                  *)
(***************************************************************************)
C4_Invalid ==
    /\ Loaded
    /\ \/ v.instance.replicationState \notin {Primary, Secondary}
       \/ v.instance.asyncMode # ModeEnabled /\ v.instance.syncMode # ModeEnabled

C4_ValidationTerminal ==
    (C4_Invalid /\ pc # "loaded") =>
        /\ pc = "done"
        /\ sync.ran
        /\ LET c == v.instance.status.conditions
               i == findCondition(c, VRGConditionTypeDataReady)
           IN /\ i # 0
              /\ c[i] = Condition(VRGConditionTypeDataReady, ConditionFalse,
                                  VRGConditionReasonError, v.instance.generation)
        /\ Range(calls) \subseteq
              {"get", "event:ValidationFailed", "statusUpdate:ok", "statusUpdate:fail"}
        /\ v.volRepPVCs = <<>> /\ v.volSyncPVCs = <<>>
        /\ result.RequeueAfter = 0
        /\ result = IF sync.err THEN RequeueNow ELSE NoRequeue

\* The error condition was written and the invocation asked for nothing more.
C4_Witness ==
    /\ C4_Invalid /\ pc = "done"
    /\ sync.issued /\ ~sync.err
    /\ result = NoRequeue

(***************************************************************************)
(* C9.  Status-state derivation, after every run of updateVRGStatus: if    *)
(* DataReady is True the state is PrimaryState for role Primary and        *)
(* SecondaryState for role Secondary; if the reason of DataReady is Error  *)
(* the state is Unknown; if the role is neither, the state is Unknown.     *)
(***************************************************************************)
C9_StatusStateDerivation ==
    (sync.ran /\ Loaded) =>
        LET c == v.instance.status.conditions
            i == findCondition(c, VRGConditionTypeDataReady)
            role == v.instance.replicationState
            state == v.instance.status.state
        IN /\ (i # 0 /\ c[i].status = ConditionTrue /\ role = Primary) => state = PrimaryState
           /\ (i # 0 /\ c[i].status = ConditionTrue /\ role = Secondary) => state = SecondaryState
           /\ (i # 0 /\ c[i].reason = VRGConditionReasonError) => state = UnknownState
           /\ role \notin {Primary, Secondary} => state = UnknownState

\* A VRG that was Primary and ready, now Secondary and ready.
C9_Witness ==
    /\ sync.ran /\ Loaded
    /\ v.instance.replicationState = Secondary
    /\ v.savedInstanceStatus.state = PrimaryState
    /\ IsTrue(v.instance.status.conditions, VRGConditionTypeDataReady)
    /\ v.instance.status.state = SecondaryState

\* A VRG that was ready, and whose DataReady now reports an error.
C9_WitnessError ==
    /\ sync.ran /\ Loaded
    /\ v.instance.replicationState = Primary
    /\ v.savedInstanceStatus.state = PrimaryState
    /\ findCondition(v.instance.status.conditions, VRGConditionTypeDataReady) # 0
    /\ ConditionOf(v.instance.status.conditions, VRGConditionTypeDataReady).reason
          = VRGConditionReasonError
    /\ v.instance.status.state = UnknownState

(***************************************************************************)
(* C10 as stated.  The requeue signal of updateVRGStatus is true unless    *)
(* DataReady, DataProtected and ClusterDataProtected are all True with     *)
(* observedGeneration equal to the generation of the VRG (here for the     *)
(* runs whose status write did not fail).                                  *)
(***************************************************************************)
C10_RequeueSignal_Original ==
    (sync.ran /\ ~sync.err) =>
        (sync.requeue <=>
            ~(\A t \in SummaryTypes :
                 TrueAt(v.instance.status.conditions, t, v.instance.generation)))

(***************************************************************************)
(* C10, amended.  The requeue signal of updateVRGStatus is true unless     *)
(* DataReady, DataProtected and ClusterDataProtected are all present with  *)
(* status True, at whatever observedGeneration they are recorded, and the  *)
(* status write has not failed.                                            *)
(***************************************************************************)
C10_RequeueSignal ==
    sync.ran =>
        (sync.requeue <=>
            (sync.err \/ ~(\A t \in SummaryTypes : IsTrue(v.instance.status.conditions, t))))

\* The signal is false on conditions recorded at an older generation.
C10_Witness ==
    /\ sync.ran /\ ~sync.err /\ ~sync.requeue
    /\ \E t \in SummaryTypes :
          ConditionOf(v.instance.status.conditions, t).observedGeneration
              < v.instance.generation

\* The signal is true because ClusterDataProtected alone is not True.
C10_WitnessOneMissing ==
    /\ sync.ran /\ ~sync.err /\ sync.requeue
    /\ IsTrue(v.instance.status.conditions, VRGConditionTypeDataReady)
    /\ IsTrue(v.instance.status.conditions, VRGConditionTypeDataProtected)

(***************************************************************************)
(* Repeated invocations against collaborators whose answers do not change: *)
(* env holds the answer of every call for the whole behaviour.  quiet      *)
(* records that an invocation has run to its end since the last change     *)
(* from outside, and whether its status write failed.                      *)
(***************************************************************************)
BaseEnv ==
    [NoEnv EXCEPT !.pvcList = <<1, 2>>, !.vrcs = <<"csi-a">>,
                  !.sc = TwoClaims("csi-a", "csi-b"),
                  !.volSyncAgg = AllReady, !.volRepAgg = AllReady]

EnvVariations ==
    {BaseEnv,
     [BaseEnv EXCEPT !.getFails = TRUE],
     [BaseEnv EXCEPT !.updateFails = TRUE],
     [BaseEnv EXCEPT !.delRequeue = TRUE],
     [BaseEnv EXCEPT !.s3Fails = TRUE],
     [BaseEnv EXCEPT !.restoreVolSyncFails = TRUE],
     [BaseEnv EXCEPT !.restoreVolRepFails = TRUE],
     [BaseEnv EXCEPT !.requeueForVolSync = TRUE],
     [BaseEnv EXCEPT !.requeueForVolRep = TRUE]}
    \cup {[BaseEnv EXCEPT !.listFails = i.listFails, !.pvcList = i.pvcList,
                          !.vrcFails = i.vrcFails, !.vrcs = i.vrcs, !.sc = i.sc,
                          !.volSyncAgg = b] :
             i \in MachineClassifyInputs, b \in {AllReady, NilAggregate}}
    \cup {[BaseEnv EXCEPT !.volSyncAgg = b, !.volRepAgg = a] :
             b \in {NilAggregate, AllReady}, a \in Aggregates}

IdemEnvs == EnvVariations \cup {[e EXCEPT !.statusFails = TRUE] : e \in EnvVariations}

InitIdem ==
    /\ vrg \in {NewVRG(s) : s \in SpecVariants}
    /\ pc = "idle"
    /\ v = NoInstance
    /\ stale = FALSE
    /\ sync = NoSync
    /\ result = NoRequeue
    /\ calls = <<>>
    /\ env \in IdemEnvs
    /\ quiet = NotQuiet
    /\ event = NoEvent
    /\ vrgs = <<>>
    /\ requests = <<>>

NextIdem ==
    \/ Reconcile(env.getFails)
    \/ processVRG(env.listFails, env.pvcList, env.vrcFails, env.vrcs, env.sc, env.statusFails)
    \/ processForDeletion(env.delRequeue, env.s3Fails, env.updateFails)
    \/ ensureFinalizer(env.updateFails, env.statusFails)
    \/ processAsPrimary(env.restoreVolSyncFails, env.restoreVolRepFails,
                        env.requeueForVolSync, env.requeueForVolRep,
                        env.volSyncAgg, env.volRepAgg, env.statusFails)
    \/ processAsSecondary(env.requeueForVolSync, env.requeueForVolRep,
                          env.volSyncAgg, env.volRepAgg, env.statusFails)
    \/ ReconcileReturn(TRUE)
    \/ \E s \in SpecVariants : UserEdit(s)
    \/ UserDelete

SpecIdem == InitIdem /\ [][NextIdem]_vars

\* The status updateVRGStatus computed, before any stamp, is the snapshot.
ComputedEqualsSnapshot ==
    /\ sync.ran
    /\ [v.instance.status EXCEPT !.lastUpdateTime = v.savedInstanceStatus.lastUpdateTime]
          = v.savedInstanceStatus

StatusUpdateIssued == Called("statusUpdate:ok") \/ Called("statusUpdate:fail")

\* No status Update when the computed status is the snapshot; the update time
\* stays, in memory and in the store; the requeue signal is still derived
\* from the three conditions.
C2_EqualStatusNotWritten ==
    ComputedEqualsSnapshot =>
        /\ ~sync.issued /\ ~StatusUpdateIssued
        /\ v.instance.status.lastUpdateTime = v.savedInstanceStatus.lastUpdateTime
        /\ vrg.exists => vrg.status.lastUpdateTime = v.savedInstanceStatus.lastUpdateTime
        /\ sync.requeue <=>
              ~(\A t \in SummaryTypes : IsTrue(v.instance.status.conditions, t))

MaxVRGs == 2     \* VRG objects in the store the map function lists

pvcVRFinalizerProtected == "volumereplicationgroups.ramendr.openshift.io/pvc-vr-protection"
pvcInUse == "kubernetes.io/pvc-protection"

ClaimBound == "Bound"
ClaimPhases == {"Pending", ClaimBound, "Lost"}
ClaimSpecs == {"1Gi", "2Gi"}
Namespaces == {"ns-1", "ns-2"}
LabelKeys == {"app", "tier"}
ClaimFinalizers ==
    {<<>>, <<pvcInUse>>, <<pvcVRFinalizerProtected>>, <<pvcInUse, pvcVRFinalizerProtected>>}

PVC(namespace, labels, spec, phase, finalizers, deleted) ==
    [namespace |-> namespace, labels |-> labels, spec |-> spec, phase |-> phase,
     finalizers |-> finalizers, deletionTimestamp |-> deleted]

\* The claims of the predicate scenarios: one namespace, labelled or not.
PredicateClaims ==
    {PVC("ns-1", l, s, ph, f, d) :
        l \in {{}, {"app"}}, s \in ClaimSpecs, ph \in ClaimPhases,
        f \in ClaimFinalizers, d \in BOOLEAN}

\* The claims of the mapping scenarios: every namespace and label set.
MappingClaims ==
    {PVC(ns, l, "1Gi", ClaimBound, <<pvcInUse>>, FALSE) :
        ns \in Namespaces, l \in SUBSET LabelKeys}

CreateEvent(object) == [kind |-> "create", object |-> object]
UpdateEvent(objectOld, objectNew) ==
    [kind |-> "update", objectOld |-> objectOld, objectNew |-> objectNew]
DeleteEvent(object) == [kind |-> "delete", object |-> object]

\* A label selector is the set of labels it requires, or one that
\* LabelSelectorAsSelector rejects.
LabelSelector(matchLabels) == [valid |-> TRUE, matchLabels |-> matchLabels]
InvalidSelector == [valid |-> FALSE, matchLabels |-> {}]
Selectors == {LabelSelector(l) : l \in SUBSET LabelKeys} \cup {InvalidSelector}
VRGNames == 1..MaxVRGs
VRGItem(name, namespace, selector) ==
    [name |-> name, namespace |-> namespace, pvcSelector |-> selector]

\* The store's VRGs, in name order: each name is absent or is one object.
RECURSIVE VRGStoresUpTo(_)
VRGStoresUpTo(n) ==
    IF n = 0 THEN {<<>>}
    ELSE LET shorter == VRGStoresUpTo(n - 1)
         IN shorter \cup
            {Append(st, VRGItem(n, ns, sel)) :
                st \in shorter, ns \in Namespaces, sel \in Selectors}
VRGStores == VRGStoresUpTo(MaxVRGs)

\* One VRG that selects every claim of ns-1, for the predicate scenarios.
PredicateStore == <<VRGItem(1, "ns-1", LabelSelector({}))>>

skipPVC(pvc) ==
    \/ pvc.phase # ClaimBound
    \/ /\ pvc.deletionTimestamp
       /\ ~containsString(pvc.finalizers, pvcVRFinalizerProtected)

\* Faulty variant: the last test is dropped and every update is handed on.
updateEventDecision_requeuesAll(oldPVC, newPVC) == TRUE

updateEventDecision(oldPVC, newPVC) ==
    IF oldPVC.spec # newPVC.spec THEN TRUE
    ELSE IF oldPVC.phase # ClaimBound /\ newPVC.phase = ClaimBound THEN TRUE
    ELSE IF /\ containsString(oldPVC.finalizers, pvcInUse)
            /\ ~containsString(newPVC.finalizers, pvcInUse) THEN TRUE
    ELSE IF ~skipPVC(newPVC) THEN TRUE
    ELSE FALSE

pvcPredicateFunc(e) ==
    CASE e.kind = "create" -> TRUE
      [] e.kind = "update" -> updateEventDecision(e.objectOld, e.objectNew)
      [] e.kind = "delete" -> FALSE

EventObject(e) == IF e.kind = "update" THEN e.objectNew ELSE e.object

\* client.List with InNamespace.
ListVRGs(store, namespace) == SelectSeq(store, LAMBDA item : item.namespace = namespace)

LabelSelectorAsSelector(selector) ==
    IF ~selector.valid THEN [err |-> TRUE, requires |-> {}]
    ELSE [err |-> FALSE, requires |-> selector.matchLabels]

Matches(selector, labels) == selector.requires \subseteq labels

Request(item) == [name |-> item.name, namespace |-> item.namespace]

RECURSIVE filterPVCFrom(_, _, _, _, _)
filterPVCFrom(items, pvc, idx, req, stopOnError) ==
    IF idx > Len(items) THEN req
    ELSE LET selector == LabelSelectorAsSelector(items[idx].pvcSelector)
         IN IF selector.err
            THEN IF stopOnError THEN req
                 ELSE filterPVCFrom(items, pvc, idx + 1, req, stopOnError)
            ELSE IF Matches(selector, pvc.labels)
            THEN filterPVCFrom(items, pvc, idx + 1, Append(req, Request(items[idx])),
                               stopOnError)
            ELSE filterPVCFrom(items, pvc, idx + 1, req, stopOnError)

\* Faulty variant: a selector that cannot be evaluated ends the loop.
filterPVC_stopsAtBadSelector(listFails, store, pvc) ==
    IF listFails THEN <<>>
    ELSE filterPVCFrom(ListVRGs(store, pvc.namespace), pvc, 1, <<>>, TRUE)

filterPVC(listFails, store, pvc) ==
    IF listFails THEN <<>>
    ELSE filterPVCFrom(ListVRGs(store, pvc.namespace), pvc, 1, <<>>, FALSE)

(***************************************************************************)
(* The watch as a machine: an event arrives, the predicate hands it on or  *)
(* drops it, and the map function enqueues the requests.                   *)
(***************************************************************************)
PredicateScenarios ==
    {<<e, PredicateStore>> :
        e \in {UpdateEvent(o, n) : o \in PredicateClaims, n \in PredicateClaims}
              \cup {CreateEvent(o) : o \in PredicateClaims}
              \cup {DeleteEvent(o) : o \in PredicateClaims}}

MappingScenarios ==
    {<<CreateEvent(o), st>> : o \in MappingClaims, st \in VRGStores}

InitWatch ==
    /\ vrg = NoObject
    /\ pc = "event"
    /\ v = NoInstance
    /\ stale = FALSE
    /\ sync = NoSync
    /\ result = NoRequeue
    /\ calls = <<>>
    /\ env = NoEnv
    /\ quiet = NotQuiet
    /\ \E scenario \in PredicateScenarios \cup MappingScenarios :
          /\ event = scenario[1]
          /\ vrgs = scenario[2]
    /\ requests = <<>>

pvcPredicate ==
    /\ pc = "event"
    /\ pc' = IF pvcPredicateFunc(event) THEN "pvcMapFun" ELSE "dropped"
    /\ UNCHANGED <<vrg, v, stale, sync, result, calls, env, quiet, watch>>

pvcMapFun(listFails) ==
    /\ pc = "pvcMapFun"
    /\ requests' = filterPVC(listFails, vrgs, EventObject(event))
    /\ calls' = IF listFails THEN <<"listVRGs", "listVRGs:fail">> ELSE <<"listVRGs">>
    /\ pc' = "enqueued"
    /\ UNCHANGED <<vrg, v, stale, sync, result, env, quiet, event, vrgs>>

NextWatch ==
    \/ pvcPredicate
    \/ \E listFails \in BOOLEAN : pvcMapFun(listFails)

SpecWatch == InitWatch /\ [][NextWatch]_vars

HandedOn == pc \in {"pvcMapFun", "enqueued"}
Decided == pc \in {"pvcMapFun", "enqueued", "dropped"}
IsUpdate == event.kind = "update"

SpecChanged == event.objectOld.spec # event.objectNew.spec
BecameBound ==
    /\ event.objectOld.phase # ClaimBound
    /\ event.objectNew.phase = ClaimBound
InUseRemoved ==
    /\ pvcInUse \in Range(event.objectOld.finalizers)
    /\ pvcInUse \notin Range(event.objectNew.finalizers)
Terminating(pvc) == pvc.deletionTimestamp
VRProtected(pvc) == pvcVRFinalizerProtected \in Range(pvc.finalizers)
RemovalCandidate(pvc) ==
    \/ pvc.phase # ClaimBound
    \/ Terminating(pvc) /\ ~VRProtected(pvc)

\* C13 as stated: an update is handed on only if the spec changed, the claim
\* became Bound, the in-use finalizer was removed, or the new claim is a
\* candidate for removal from VR protection.
C13_UpdateEnqueues_Original ==
    (IsUpdate /\ HandedOn)
        => \/ SpecChanged
           \/ BecameBound
           \/ InUseRemoved
           \/ RemovalCandidate(event.objectNew)

\* C13: an update is handed on only if the spec changed, the claim became
\* Bound, the in-use finalizer was removed, or the new claim is not a
\* candidate for removal from VR protection (it is Bound and is not
\* terminating without the VR-protection finalizer); any other update, such
\* as status or metadata churn on a claim that is not yet Bound, is dropped.
C13_UpdateEnqueues ==
    /\ (IsUpdate /\ HandedOn)
          => \/ SpecChanged
             \/ BecameBound
             \/ InUseRemoved
             \/ ~RemovalCandidate(event.objectNew)
    /\ (IsUpdate /\ Decided /\ ~SpecChanged /\ ~InUseRemoved /\
        event.objectNew.phase # ClaimBound)
          => pc = "dropped"

C13_Witness ==
    /\ IsUpdate
    /\ HandedOn
    /\ ~SpecChanged
    /\ ~BecameBound
    /\ ~InUseRemoved
    /\ event.objectOld.labels # event.objectNew.labels
    /\ event.objectNew.phase = ClaimBound
    /\ ~Terminating(event.objectNew)

C13_WitnessDropped ==
    /\ IsUpdate
    /\ pc = "dropped"
    /\ event.objectOld.labels # event.objectNew.labels
    /\ event.objectNew.phase = "Pending"

Selects(item, pvc) ==
    /\ item.namespace = pvc.namespace
    /\ item.pvcSelector.valid
    /\ item.pvcSelector.matchLabels \subseteq pvc.labels

RequestsFor(item) ==
    Cardinality({i \in 1..Len(requests) : requests[i] = Request(item)})

ListFailed == Called("listVRGs:fail")

\* C14: the requests of a claim event are exactly one per VRG of the claim's
\* namespace whose selector matches the claim's labels and none for any
\* other VRG; a VRG whose selector cannot be evaluated is skipped and the
\* others keep their requests; a failed list of the VRGs yields no request.
C14_MappingExact ==
    pc = "enqueued"
        => /\ ListFailed => requests = <<>>
           /\ ~ListFailed
                 => /\ \A i \in 1..Len(vrgs) :
                          RequestsFor(vrgs[i])
                              = IF Selects(vrgs[i], EventObject(event)) THEN 1 ELSE 0
                    /\ \A r \in 1..Len(requests) :
                          \E i \in 1..Len(vrgs) : requests[r] = Request(vrgs[i])

C14_Witness ==
    /\ pc = "enqueued"
    /\ ~ListFailed
    /\ Len(vrgs) = 2
    /\ vrgs[1].pvcSelector = InvalidSelector
    /\ vrgs[1].namespace = EventObject(event).namespace
    /\ Selects(vrgs[2], EventObject(event))
    /\ requests = <<Request(vrgs[2])>>

C14_WitnessListFailed ==
    /\ pc = "enqueued"
    /\ ListFailed
    /\ \E i \in 1..Len(vrgs) : Selects(vrgs[i], EventObject(event))

(***************************************************************************)
(* Claims on the main specification, continued.                            *)
(***************************************************************************)
SideEffects ==
    {"restorePVsForVolSync", "restorePVsForVolRep",
     "reconcileVolSyncAsPrimary", "reconcileVolRepsAsPrimary",
     "reconcileVolSyncAsSecondary", "reconcileVolRepsAsSecondary"}

RoleBranch == Called("processAsPrimary") \/ Called("processAsSecondary")

NoSideEffects == \A i \in 1..Len(calls) : calls[i] \notin SideEffects

DataErrorSet ==
    LET c == ConditionOf(v.instance.status.conditions, VRGConditionTypeDataReady)
    IN /\ c.status = ConditionFalse
       /\ c.reason = VRGConditionReasonError

C11_AfterFinalizer ==
    \A i \in 1..Len(calls) :
        calls[i] \in SideEffects
            => /\ \E j \in 1..(i - 1) : calls[j] = "finalizer:present"
               /\ containsString(v.instance.finalizers, vrgFinalizerName)
               /\ FinalizerStored

C11_FailureStops ==
    (RoleBranch /\ Called("update:fail"))
        => /\ pc = "done"
           /\ NoSideEffects
           /\ ~Called("finalizer:present")
           /\ DataErrorSet
           /\ result = RequeueNow

\* C11: in a Primary or Secondary reconcile, a restore or backend reconcile
\* operation is invoked only after the finalizer is ensured on the VRG in that
\* invocation; when adding the finalizer fails none of them is invoked, the
\* data error condition is set and the invocation returns a requeue.
C11_FinalizerBeforeSideEffects == C11_AfterFinalizer /\ C11_FailureStops

C11_Witness ==
    /\ pc = "done"
    /\ Called("processAsPrimary")
    /\ Called("update:fail")
    /\ result = RequeueNow

C11_WitnessAdded ==
    /\ Called("update:ok")
    /\ Called("reconcileVolRepsAsPrimary")

BranchNames == {"processForDeletion", "processAsPrimary", "processAsSecondary"}

BranchesRun == {i \in 1..Len(calls) : calls[i] \in BranchNames}

DeletionCalls ==
    {"reconcileVRsForDeletion:ok", "reconcileVRsForDeletion:requeue",
     "deleteClusterDataInS3Stores:ok", "deleteClusterDataInS3Stores:fail",
     "event:DeleteSuccess"}

NoDeletionCalls == \A i \in 1..Len(calls) : calls[i] \notin DeletionCalls

C12_BranchOf ==
    IF Deleting THEN "processForDeletion"
    ELSE IF v.instance.replicationState = Primary THEN "processAsPrimary"
    ELSE "processAsSecondary"

\* C12 as stated: every invocation of a VRG whose deletionTimestamp is set
\* runs the deletion branch, whatever desiredRole is, and every invocation
\* runs exactly one of the three branches.
C12_DispatchOrder_Original ==
    (pc = "done" /\ Loaded)
        => /\ Cardinality(BranchesRun) = 1
           /\ Deleting => Called("processForDeletion")

\* C12: an invocation that loaded the VRG, passed validation and classified
\* the claims runs exactly one branch: the deletion branch when
\* deletionTimestamp is set, whatever desiredRole is, otherwise the branch of
\* the role; an invocation that stops before dispatch runs no branch.
C12_DispatchOrder ==
    /\ Classified
          => /\ Cardinality(BranchesRun) = 1
             /\ Called(C12_BranchOf)
             /\ v.instance.replicationState \in {Primary, Secondary}
             /\ Called("processForDeletion")
                   => NoSideEffects /\ ~Called("finalizer:present")
             /\ ~Called("processForDeletion") => NoDeletionCalls
    /\ ~Classified
          => /\ BranchesRun = {}
             /\ NoSideEffects
             /\ NoDeletionCalls
             /\ ~Called("finalizer:present")

C12_Witness ==
    /\ pc = "done"
    /\ Deleting
    /\ v.instance.replicationState = Primary
    /\ Called("processForDeletion")
    /\ Called("reconcileVRsForDeletion:ok")

C12_WitnessInvalidRole ==
    /\ pc = "done"
    /\ Loaded
    /\ Deleting
    /\ v.instance.replicationState = InvalidState
    /\ BranchesRun = {}

StoreFailures ==
    {"get:fail", "listPVCs:fail", "listVRCs:fail", "getStorageClass:fail",
     "update:fail", "statusUpdate:fail"}

CollaboratorFailures ==
    {"restorePVsForVolSync:fail", "restorePVsForVolRep:fail",
     "reconcileVolSyncAsPrimary:requeue", "reconcileVolRepsAsPrimary:requeue",
     "reconcileVolSyncAsSecondary:requeue", "reconcileVolRepsAsSecondary:requeue",
     "reconcileVRsForDeletion:requeue", "deleteClusterDataInS3Stores:fail"}

InvocationFailed ==
    \E i \in 1..Len(calls) : calls[i] \in StoreFailures \cup CollaboratorFailures

RequestsAnother(r) == r.Requeue \/ r.RequeueAfter > 0 \/ r.err

Returned == pc \in {"done", "idle"}

\* C15: an invocation in which a call to the store or to a collaborator
\* failed returns a result that requests another invocation; a failed
\* status write is never followed by a no-requeue result.
C15_FailuresRequeue ==
    /\ (Returned /\ InvocationFailed) => RequestsAnother(result)
    /\ (Returned /\ Called("statusUpdate:fail")) => result # NoRequeue

C15_Witness ==
    /\ pc = "done"
    /\ Called("event:ValidationFailed")
    /\ Called("statusUpdate:fail")
    /\ ~Called("listPVCs")
    /\ result = RequeueNow

C15_WitnessBackend ==
    /\ pc = "done"
    /\ Called("reconcileVolRepsAsSecondary:requeue")
    /\ ~Called("statusUpdate:fail")
    /\ areRequiredConditionsReady(v.instance.status.conditions)
    /\ result = RequeueAfterSecond

StatusWrites(c) ==
    Cardinality({i \in 1..Len(c) : c[i] \in {"statusUpdate:ok", "statusUpdate:fail"}})

C16_Step ==
    (stale /\ StatusWrites(calls') > StatusWrites(calls))
        => /\ calls'[Len(calls')] = "statusUpdate:fail"
           /\ StatusWrites(calls') = 1
           /\ sync'.err
           /\ vrg' = vrg
           /\ pc' = "done"
           /\ RequestsAnother(result')

\* C16: when the stored VRG was modified by another actor after the load of
\* an invocation, the status write of that invocation is rejected, the
\* stored object stays as the other actor left it, the write is issued once
\* and not retried, and the invocation returns a result that requeues.
C16_ConflictRejected == [][C16_Step]_vars

C16_Witness ==
    /\ stale
    /\ pc = "done"
    /\ Called("statusUpdate:fail")
    /\ Called("updateVRGConditions")
    /\ vrg.exists
    /\ vrg.generation > v.instance.generation
    /\ vrg.status = v.savedInstanceStatus
    /\ result = RequeueAfterSecond

(***************************************************************************)
(* Claims on the classification specification, continued.                  *)
(***************************************************************************)
RoutedByProvisioner ==
    /\ Classified
    /\ ~Deleting
    /\ Called("listVRCs")
    /\ Len(v.replClassList) >= 1

ProvisionerListed(n) == env.sc[n] \in Range(v.replClassList)

\* C17: when the VRG is not being deleted and the class query returned at
\* least one replication class, a listed claim is a VolRep claim exactly
\* when the provisioner of its storage class is that of some listed class
\* and a VolSync claim otherwise; each claim is listed once, and the two
\* lists are determined by the set of the classes' provisioners alone.
C17_ProvisionerRouting ==
    RoutedByProvisioner
        => /\ \A n \in Range(env.pvcList) :
                 /\ InVolRep(n) <=> ProvisionerListed(n)
                 /\ InVolSync(n) <=> ~ProvisionerListed(n)
                 /\ Count(v.volRepPVCs, n) + Count(v.volSyncPVCs, n) = 1
           /\ v.volRepPVCs = SelectSeq(env.pvcList, ProvisionerListed)
           /\ v.volSyncPVCs = SelectSeq(env.pvcList, LAMBDA n : ~ProvisionerListed(n))

C17_Witness ==
    /\ RoutedByProvisioner
    /\ Len(v.replClassList) = 2
    /\ \E n \in Range(env.pvcList) :
          /\ InVolRep(n)
          /\ v.replClassList[1] # env.sc[n]
          /\ v.replClassList[2] = env.sc[n]

C17_WitnessBoth ==
    /\ RoutedByProvisioner
    /\ \E n \in Range(env.pvcList) : InVolRep(n)
    /\ \E n \in Range(env.pvcList) : InVolSync(n)

(***************************************************************************)
(* Claims on the main specification, continued.                            *)
(***************************************************************************)
\* C18: when the storage class of a listed claim cannot be fetched, the
\* invocation ends there: no branch runs on the claims classified before the
\* failure (no finalizer Update, restore, backend reconcile, deletion call or
\* condition aggregation), the data error condition is set, the status is
\* synchronised and the result is a requeue.
C18_PartialClassification ==
    Called("getStorageClass:fail")
        => /\ Returned
           /\ ~Classified
           /\ BranchesRun = {}
           /\ NoSideEffects
           /\ NoDeletionCalls
           /\ ~Called("finalizer:present")
           /\ ~Called("update:ok") /\ ~Called("update:fail")
           /\ ~Called("updateVRGConditions")
           /\ sync.ran
           /\ DataErrorSet
           /\ result = RequeueNow

C18_Witness ==
    /\ pc = "done"
    /\ Called("getStorageClass:fail")
    /\ v.volRepPVCs # <<>>
    /\ ~containsString(v.instance.finalizers, vrgFinalizerName)
    /\ result = RequeueNow

(***************************************************************************)
(* Claims on the specification with fixed answers, continued.              *)
(***************************************************************************)
Aggregated == Loaded /\ Called("updateVRGConditions")

\* The condition of type t as it was before the aggregation of the
\* invocation: the loaded one, or the initial one of a VRG with no status.
ConditionBefore(t) ==
    IF v.savedInstanceStatus.conditions = <<>>
    THEN Condition(t, ConditionUnknown, VRGConditionReasonInitializing, v.instance.generation)
    ELSE ConditionOf(v.savedInstanceStatus.conditions, t)

EntriesOf(conditions, t) ==
    Cardinality({i \in 1..Len(conditions) : conditions[i].type = t})

C19_Precedence ==
    Aggregated
        => \A t \in SummaryTypes :
              ConditionOf(v.instance.status.conditions, t)
                  = IF v.volRepPVCs # <<>>
                    THEN SummaryCondition(t, env.volRepAgg[t], v.instance.generation)
                    ELSE IF env.volSyncAgg[t] # NilVerdict
                    THEN SummaryCondition(t, env.volSyncAgg[t], v.instance.generation)
                    ELSE ConditionBefore(t)

C19_OneEntry ==
    \A t \in SummaryTypes :
        /\ Loaded => EntriesOf(v.instance.status.conditions, t) <= 1
        /\ vrg.exists => EntriesOf(vrg.status.conditions, t) <= 1

\* C19: after aggregation each of DataReady, DataProtected and
\* ClusterDataProtected is the VolRep verdict when there are VolRep claims,
\* whatever the VolSync roll-up produced; with no VolRep claim it is the
\* VolSync verdict when there is one and is unchanged otherwise; a status
\* never holds two entries of one of these types.
C19_AggregationPrecedence == C19_Precedence /\ C19_OneEntry

C19_Witness ==
    /\ Aggregated
    /\ v.volRepPVCs # <<>>
    /\ env.volSyncAgg = AllReady
    /\ env.volRepAgg[VRGConditionTypeDataReady] = VerdictError
    /\ ConditionOf(v.instance.status.conditions, VRGConditionTypeDataReady).status
           = ConditionFalse

C19_WitnessVolSync ==
    /\ Aggregated
    /\ v.volRepPVCs = <<>>
    /\ env.volSyncAgg = AllReady
    /\ IsTrue(v.instance.status.conditions, VRGConditionTypeDataProtected)

C19_WitnessUnchanged ==
    /\ Aggregated
    /\ v.volRepPVCs = <<>>
    /\ env.volSyncAgg = NilAggregate
    /\ ConditionOf(v.instance.status.conditions, VRGConditionTypeDataReady).status
           = ConditionUnknown

(***************************************************************************)
(* Claims on the main specification, continued.                            *)
(***************************************************************************)
PrimaryPastRestore ==
    /\ Loaded
    /\ Returned
    /\ Called("processAsPrimary")
    /\ Called("finalizer:present")
    /\ ~Called("restorePVsForVolSync:fail")
    /\ ~Called("restorePVsForVolRep:fail")

BackendAskedRequeue ==
    \/ Called("reconcileVolSyncAsPrimary:requeue")
    \/ Called("reconcileVolRepsAsPrimary:requeue")

SummaryAllTrue ==
    \A t \in SummaryTypes : IsTrue(v.instance.status.conditions, t)

\* C20: a Primary invocation whose finalizer and restore steps succeeded
\* reconciles the backends, aggregates the conditions and synchronises the
\* status whether or not a backend asked for a requeue; it returns the
\* one-second requeue when a backend asked for one, the status write failed
\* or the three summary conditions are not all True, and no requeue
\* otherwise.
C20_PrimaryCompletion ==
    PrimaryPastRestore
        => /\ Called("reconcileVolRepsAsPrimary")
           /\ Called("updateVRGConditions")
           /\ sync.ran
           /\ result = IF BackendAskedRequeue \/ sync.err \/ ~SummaryAllTrue
                        THEN RequeueAfterSecond
                        ELSE NoRequeue

C20_Witness ==
    /\ PrimaryPastRestore
    /\ BackendAskedRequeue
    /\ ~sync.err
    /\ SummaryAllTrue
    /\ Called("statusUpdate:ok")
    /\ result = RequeueAfterSecond

C20_WitnessNoRequeue ==
    /\ PrimaryPastRestore
    /\ ~BackendAskedRequeue
    /\ result = NoRequeue

SecondaryPastFinalizer ==
    /\ Loaded
    /\ Returned
    /\ Called("processAsSecondary")
    /\ Called("finalizer:present")

SecondaryAskedRequeue ==
    \/ Called("reconcileVolSyncAsSecondary:requeue")
    \/ Called("reconcileVolRepsAsSecondary:requeue")

C21_NoRestore ==
    (Loaded /\ Called("processAsSecondary"))
        => /\ ~Called("restorePVsForVolSync")
           /\ ~Called("restorePVsForVolRep")
           /\ ConditionOf(v.instance.status.conditions, VRGConditionTypeClusterDataReady)
                 = ConditionBefore(VRGConditionTypeClusterDataReady)

C21_BackendOrder ==
    \A i \in 1..Len(calls) :
        calls[i] = "reconcileVolRepsAsSecondary"
            => /\ \E j \in 1..(i - 1) : calls[j] = "reconcileVolSyncAsSecondary"
               /\ ~Called("reconcileVolSyncAsSecondary:requeue")

C21_Completion ==
    SecondaryPastFinalizer
        => /\ Called("reconcileVolSyncAsSecondary")
           /\ ~Called("reconcileVolSyncAsSecondary:requeue")
                 => Called("reconcileVolRepsAsSecondary")
           /\ Called("updateVRGConditions")
           /\ sync.ran
           /\ result = IF SecondaryAskedRequeue \/ sync.err \/ ~SummaryAllTrue
                        THEN RequeueAfterSecond
                        ELSE NoRequeue

\* C21: a Secondary invocation calls no restore and leaves ClusterDataReady
\* as it found it; once the finalizer is ensured it asks the VolSync backend
\* first and the VolRep backend only when VolSync asked for no requeue, then
\* synchronises the status, and returns the one-second requeue when a backend
\* asked for one, the status write failed or the summary conditions are not
\* all True.
C21_SecondaryEntry == C21_NoRestore /\ C21_BackendOrder /\ C21_Completion

C21_Witness ==
    /\ SecondaryPastFinalizer
    /\ Called("reconcileVolSyncAsSecondary:requeue")
    /\ ~Called("reconcileVolRepsAsSecondary")
    /\ SummaryAllTrue
    /\ ~sync.err
    /\ result = RequeueAfterSecond

C21_WitnessBoth ==
    /\ SecondaryPastFinalizer
    /\ Called("reconcileVolRepsAsSecondary")
    /\ result = NoRequeue

ClusterDataCertified(conditions) ==
    TrueAt(conditions, VRGConditionTypeClusterDataReady, v.instance.generation)

PrimaryNotCertified ==
    /\ Loaded
    /\ Called("processAsPrimary")
    /\ ~ClusterDataCertified(v.savedInstanceStatus.conditions)

RestoreFailed ==
    Called("restorePVsForVolSync:fail") \/ Called("restorePVsForVolRep:fail")

ClusterDataErrorSet ==
    LET c == ConditionOf(v.instance.status.conditions, VRGConditionTypeClusterDataReady)
    IN /\ c.status = ConditionFalse
       /\ c.reason = VRGConditionReasonError

C22_Order ==
    \A i \in 1..Len(calls) :
        calls[i] = "restorePVsForVolRep"
            => /\ \E j \in 1..(i - 1) : calls[j] = "restorePVsForVolSync"
               /\ ~Called("restorePVsForVolSync:fail")

C22_Certifies ==
    (PrimaryNotCertified /\ ClusterDataCertified(v.instance.status.conditions))
        => /\ Called("restorePVsForVolSync")
           /\ Called("restorePVsForVolRep")
           /\ ~RestoreFailed

C22_Failure ==
    (PrimaryNotCertified /\ RestoreFailed)
        => /\ Returned
           /\ ~IsTrue(v.instance.status.conditions, VRGConditionTypeClusterDataReady)
           /\ ClusterDataErrorSet
           /\ ~Called("reconcileVolSyncAsPrimary")
           /\ ~Called("reconcileVolRepsAsPrimary")
           /\ ~Called("updateVRGConditions")
           /\ result = RequeueNow

\* C22: in a Primary invocation whose ClusterDataReady is not True at the
\* VRG's generation the VolSync restore runs first and the VolRep restore
\* only after it succeeded; ClusterDataReady becomes True only when both
\* succeeded; when either fails it is not True, the cluster-data error
\* condition is set, no backend is reconciled as primary and the result is a
\* requeue.
C22_RestoreOrdering == C22_Order /\ C22_Certifies /\ C22_Failure

C22_Witness ==
    /\ PrimaryNotCertified
    /\ Called("restorePVsForVolRep:fail")
    /\ result = RequeueNow

C22_WitnessCertified ==
    /\ PrimaryNotCertified
    /\ Returned
    /\ ClusterDataCertified(v.instance.status.conditions)

C22_WitnessVolSyncFails ==
    /\ PrimaryNotCertified
    /\ Called("restorePVsForVolSync:fail")
    /\ IsTrue(v.savedInstanceStatus.conditions, VRGConditionTypeClusterDataReady)

StatusWriteIsLast ==
    \A i \in 1..Len(calls) :
        calls[i] \in {"statusUpdate:ok", "statusUpdate:fail"} => i = Len(calls)

\* C23: an invocation issues the status-subresource update at most once on
\* every path, the write is the last store call of the invocation, and a
\* failed write is followed by no second one.
C23_OneStatusWrite ==
    /\ StatusWrites(calls) <= 1
    /\ StatusWriteIsLast
    /\ StatusWrites(calls) = 1 => (sync.ran /\ Returned)
    /\ Called("statusUpdate:fail") => (sync.err /\ ~Called("statusUpdate:ok"))

C23_Witness ==
    /\ Returned
    /\ Called("statusUpdate:fail")
    /\ Called("reconcileVolRepsAsPrimary")

C23_WitnessValidation ==
    /\ Returned
    /\ Called("statusUpdate:ok")
    /\ ~Classified

C23_WitnessDeletion ==
    /\ Returned
    /\ Called("processForDeletion")
    /\ Called("update:ok")
    /\ StatusWrites(calls) = 0

(***************************************************************************)
(* Deletion on its own: a VRG whose deletionTimestamp is set, held by the  *)
(* VRG-protection finalizer, by the finalizer of another controller or by  *)
(* both, is reconciled until nothing is left to do; nobody edits it.       *)
(***************************************************************************)
\* A finalizer that is not vrgFinalizerName.
ForeignFinalizer == "foreign"

\* A deleted object stays in the store only while it has a finalizer.
DeletedFinalizers ==
    {<<ForeignFinalizer>>, <<vrgFinalizerName>>, <<ForeignFinalizer, vrgFinalizerName>>}

\* lastUpdateTime counts the status writes from the deletion on.
DeletedVRGs ==
    {[ReconciledVRG(s, TRUE, p) EXCEPT !.finalizers = f, !.status.lastUpdateTime = 0] :
        s \in SpecVariants, p \in ProtectedPVCLists, f \in DeletedFinalizers}

InitDelete ==
    /\ vrg \in DeletedVRGs
    /\ pc = "idle"
    /\ v = NoInstance
    /\ stale = FALSE
    /\ sync = NoSync
    /\ result = NoRequeue
    /\ calls = <<>>
    /\ env = NoEnv
    /\ quiet = NotQuiet
    /\ event = NoEvent
    /\ vrgs = <<>>
    /\ requests = <<>>

NextDelete ==
    \/ \E getFails \in BOOLEAN : Reconcile(getFails)
    \/ \E i \in MachineClassifyInputs, statusFails \in BOOLEAN :
          processVRG(i.listFails, i.pvcList, i.vrcFails, i.vrcs, i.sc, statusFails)
    \/ \E delRequeue \in BOOLEAN, s3Fails \in BOOLEAN, updateFails \in BOOLEAN :
          processForDeletion(delRequeue, s3Fails, updateFails)
    \/ ReconcileReturn(FALSE)

SpecDelete == InitDelete /\ [][NextDelete]_vars

FinalizerMissing ==
    \A i \in 1..Len(v.instance.finalizers) : v.instance.finalizers[i] # vrgFinalizerName

C24_Step ==
    (pc = "processForDeletion" /\ pc' = "done" /\ FinalizerMissing)
        => /\ calls' = calls
           /\ vrg' = vrg
           /\ v' = v
           /\ sync' = NoSync
           /\ result' = NoRequeue

\* C24: the deletion branch of a VRG without the VRG-protection finalizer
\* calls no backend reconcile-for-deletion and no cluster-metadata deletion,
\* issues no object update and no status write, records no event, leaves the
\* stored object and the loaded copy as they are and returns no requeue.
C24_DeletionNoOp == [][C24_Step]_vars

C24_Witness ==
    /\ pc = "done"
    /\ Loaded
    /\ Deleting
    /\ calls[Len(calls)] = "processForDeletion"
    /\ FinalizerMissing
    /\ vrg.exists
    /\ result = NoRequeue

\* A step of the reconciler: every action of an invocation moves pc, the
\* users' actions leave it alone.
ReconcilerStep == pc' # pc

OtherFinalizers(o) == removeString(o.finalizers, vrgFinalizerName)

C25_Step ==
    ReconcilerStep
        => /\ ~vrg.exists => ~vrg'.exists
           /\ (vrg.exists /\ vrg'.exists)
                  => /\ SpecOf(vrg') = SpecOf(vrg)
                     /\ vrg'.generation = vrg.generation
                     /\ vrg'.deletionTimestamp = vrg.deletionTimestamp
                     /\ OtherFinalizers(vrg') = OtherFinalizers(vrg)
           /\ (vrg.exists /\ ~vrg'.exists)
                  => /\ vrg.deletionTimestamp
                     /\ vrg.finalizers = <<vrgFinalizerName>>
           /\ (stale /\ vrg.exists) => vrg' = vrg

\* C25: a step of the reconciler leaves desiredRole, the modes, the VolSync
\* switch, the generation and the deletionTimestamp of the stored VRG as they
\* are and touches no finalizer but its own; a write from a copy that is
\* older than a user's edit changes nothing in the store.
C25_SpecOwnership == [][C25_Step]_vars

C25_Witness ==
    /\ pc = "done"
    /\ stale
    /\ Called("update:fail")
    /\ vrg.exists
    /\ SpecOf(vrg) # SpecOf(v.instance)

C25_WitnessAdded ==
    /\ pc = "done"
    /\ Called("update:ok")
    /\ FinalizerStored
    /\ vrg.generation = MaxGen
    /\ SpecOf(vrg) = SpecOf(v.instance)

C26_Bound == vrg.exists => vrg.status.observedGeneration <= vrg.generation

C26_Step ==
    (vrg.exists /\ vrg'.exists /\ vrg'.status # vrg.status)
        => /\ Loaded
           /\ vrg'.status.observedGeneration = v.instance.generation
           /\ vrg'.status.observedGeneration >= vrg.status.observedGeneration
           /\ vrg'.status.observedGeneration = vrg'.generation

\* C26: a status that reaches the store carries the generation the
\* invocation loaded as its observedGeneration; the stored observedGeneration
\* never exceeds the stored generation and never decreases from one write to
\* the next.
C26_ObservedGeneration == []C26_Bound /\ [][C26_Step]_vars

C26_Witness ==
    /\ pc = "done"
    /\ Called("statusUpdate:ok")
    /\ vrg.exists
    /\ vrg.generation = MaxGen
    /\ vrg.status.observedGeneration = MaxGen

C26_WitnessBehind ==
    /\ vrg.exists
    /\ vrg.status.observedGeneration > 0
    /\ vrg.status.observedGeneration < vrg.generation

(***************************************************************************)
(* Deletion with a scheduler: the deletion has queued the VRG, every       *)
(* started invocation runs to its return, and a returned invocation is     *)
(* followed by the next one of the queue.                                  *)
(***************************************************************************)
\* The actions are told apart by pc, so at most one of them is enabled in a
\* state and fairness of the step relation is fairness of each of them.
FairDelete == WF_vars(NextDelete)

\* The deletion has work to do: the VRG passes validation and is held by the
\* VRG-protection finalizer.
DeletionPending ==
    /\ vrg.exists
    /\ vrg.deletionTimestamp
    /\ validateVRGState(vrg)
    /\ validateVRGMode(vrg)
    /\ containsString(vrg.finalizers, vrgFinalizerName)

InitDeleteFair == InitDelete /\ DeletionPending

SpecDeleteFair == InitDeleteFair /\ [][NextDelete]_vars /\ FairDelete

C27_Removed ==
    /\ pc = "done"
    /\ Called("update:ok")
    /\ ~FinalizerStored
    /\ result = NoRequeue

\* C27: a VRG with a valid desiredRole and an enabled mode that is being
\* deleted and carries the VRG-protection finalizer: when from some point on
\* no call of an invocation fails (Get, List, Update, the backends'
\* reconcile-for-deletion, the metadata deletion), an invocation removes the
\* finalizer and returns no requeue, and from then on the finalizer stays
\* off and no invocation asks for a requeue.
C27_DeletionCompletes ==
    (<>[]~InvocationFailed)
        => /\ <>C27_Removed
           /\ <>[](~FinalizerStored /\ ~RequestsAnother(result))

C27_Witness ==
    /\ C27_Removed
    /\ Called("reconcileVRsForDeletion:ok")
    /\ Called("deleteClusterDataInS3Stores:ok")
    /\ Called("event:DeleteSuccess")

C27_WitnessHeld ==
    /\ C27_Removed
    /\ vrg.exists
    /\ vrg.finalizers = <<ForeignFinalizer>>

(***************************************************************************)
(* Claims on the classification, continued.                                *)
(***************************************************************************)
VolSyncDisabledRun ==
    /\ Loaded
    /\ pc # "loaded"
    /\ v.instance.volSyncDisabled

ClassificationQueries ==
    {"listVRCs", "listVRCs:fail", "getStorageClass", "getStorageClass:fail",
     "separateUsingVRGStatus"}

\* C28: with VolSync disabled in the spec the classification lists the
\* claims and nothing else (no replication classes, no storage class, no
\* look at status.protectedPVCs); when the list call works, every listed
\* claim is in the VolRep list and the VolSync list is empty, whether or not
\* the VRG is being deleted.
C28_VolSyncDisabled ==
    VolSyncDisabledRun
        => /\ Called("listPVCs")
           /\ \A i \in 1..Len(calls) : calls[i] \notin ClassificationQueries
           /\ ~v.vrcUpdated
           /\ v.volSyncPVCs = <<>>
           /\ IF env.listFails
              THEN ~Classified /\ v.volRepPVCs = <<>>
              ELSE Classified /\ v.volRepPVCs = env.pvcList

C28_Witness ==
    /\ VolSyncDisabledRun
    /\ Deleting
    /\ Len(v.volRepPVCs) = NumPVCs
    /\ \E i \in 1..Len(v.instance.status.protectedPVCs) :
          v.instance.status.protectedPVCs[i].protectedByVolSync

C28_WitnessNotDeleted ==
    /\ VolSyncDisabledRun
    /\ ~Deleting
    /\ Len(v.volRepPVCs) = NumPVCs
    /\ Len(env.vrcs) > 0
    /\ \E n \in Range(env.pvcList) : ~ProvisionerListed(n)

(***************************************************************************)
(* Claims on the main specification, concluded.                            *)
(***************************************************************************)
RoleReturnsNoRequeue ==
    /\ pc = "done"
    /\ Loaded
    /\ RoleBranch
    /\ result = NoRequeue

AnyBackendAskedRequeue == BackendAskedRequeue \/ SecondaryAskedRequeue

SummaryTrueByStatus ==
    \A t \in SummaryTypes :
        \E i \in 1..Len(v.instance.status.conditions) :
            /\ v.instance.status.conditions[i].type = t
            /\ v.instance.status.conditions[i].status = ConditionTrue

\* C29: a Primary or Secondary invocation returns a result without a requeue
\* only when the finalizer was ensured, the restore (Primary) did not fail
\* and ClusterDataReady is True at the generation, no backend asked for a
\* requeue, the status synchronisation ran without a failed write, and
\* DataReady, DataProtected and ClusterDataProtected are True in the status
\* of the invocation.
C29_NoRequeueOnlyWhenDone ==
    RoleReturnsNoRequeue
        => /\ Called("finalizer:present")
           /\ Called("processAsPrimary")
                 => /\ ~RestoreFailed
                    /\ ClusterDataCertified(v.instance.status.conditions)
           /\ ~AnyBackendAskedRequeue
           /\ sync.ran
           /\ ~sync.err
           /\ ~Called("statusUpdate:fail")
           /\ SummaryTrueByStatus

C29_Witness ==
    /\ RoleReturnsNoRequeue
    /\ Called("processAsPrimary")
    /\ Called("restorePVsForVolRep")
    /\ Called("statusUpdate:ok")

C29_WitnessSecondary ==
    /\ RoleReturnsNoRequeue
    /\ Called("processAsSecondary")
    /\ Called("reconcileVolRepsAsSecondary")

C29_WitnessCertified ==
    /\ RoleReturnsNoRequeue
    /\ Called("processAsPrimary")
    /\ ~Called("restorePVsForVolSync")

====
